---- MODULE Spec2Model ----
(***************************************************************************)
(* Model of the process supervisor of go-dd-service-base                   *)
(* (src/visibility/process_registry.go), of its instrumented execution     *)
(* wrapper (src/visibility/runner.go), of its metric accumulator           *)
(* (src/visibility/metrics.go), of its context logger and shortened stack  *)
(* traces (src/unnamed/part_003), of its multi-value context               *)
(* (src/unnamed/part_005), of its request size limiter                     *)
(* (src/dada/lazy_defense.go) and of the retry loop of its RDS connector   *)
(* (src/visibility/tracedsql/rds_connector.go).                            *)
(*                                                                         *)
(* The registry is shared by caller threads (which call Run, TryRun,       *)
(* RunPeriodicProcess, Close, HasProcess, LogRunning) and by the           *)
(* goroutines those calls spawn.  Every step below is one atomic step of   *)
(* one thread; the registry mutex is explicit, so that what the code does  *)
(* inside a critical section and what it does outside of it are separate   *)
(* steps.                                                                  *)
(*                                                                         *)
(* An unrecovered panic of a goroutine ends a Go program after the         *)
(* goroutine's deferred calls have run: `fatal` records it, and no thread  *)
(* takes a step afterwards.                                                *)
(***************************************************************************)
EXTENDS Bags, FiniteSets, Integers, Sequences, TLC

\* ------------------------------------------------------------------ bounds

\* ProcessContext values a run creates (CreateProcessContext calls).
MaxContexts == 2
\* Goroutines alive at the same time.
MaxTasks == 2
\* Threads calling into the registry.
MaxCallers == 2
\* Width of the word numRunning is kept in.  The code keeps a uint64; TLC's
\* integers are 32 bits wide, so the model keeps the wrap-around (0 - 1 is
\* the largest value) in a narrower word.
WordBits == 4

\* ------------------------------------------------------------- the values

\* The process names callers use (process_registry_test.go uses these two).
Names == {"proc1", "proc2"}

\* sort.Strings orders names lexicographically; for Names that is this order.
NameOrder == <<"proc1", "proc2">>

Callers == 1..MaxCallers

\* The absent entry of the processes map (a nil *ProcessContext).
NoProc == 0

Modulus == 2^WordBits

\* The operations that go through prepareRun.
RunOps == {"TryRun", "Run", "RunPeriodicProcess"}

VARIABLES
    mtx,            \* ProcessRegistry.mtx: TRUE while a thread holds it
    numRunning,     \* ProcessRegistry.numRunning
    cancelled,      \* rootCtx has been cancelled (cancel() was called)
    processes,      \* ProcessRegistry.processes: name -> context, or NoProc
    runningGroups,  \* counter of ProcessRegistry.runningGroups
    contexts,       \* the ProcessContexts created so far: contexts[i] is Name
    done,           \* done[i]: state of the Done channel of context i
    tasks,          \* bag of the goroutines spawned and not yet ended
    callers,        \* each caller thread: its current (or last) call
    fatal           \* "none", or the panic that ended the program

\* One call of RunInstrumented (src/visibility/runner.go) by one thread.
VARIABLES
    scope,          \* the ctx of the call: its statsd and client-type values
    inner,          \* the ctx fn runs with, and what fn derived from it
    locals,         \* RunInstrumented's statsd, clientType and err
    span,           \* the span started by the call
    Metrics,        \* met.Metrics of the MetricsContext of the call
    sink,           \* the flushes the statsd clients received, in order
    at,             \* where the thread stands
    panicValue,     \* the value of the panic being unwound, or NoPanic
    fnResult,       \* how fn ended: its error, or that it panicked
    iwm,            \* the InstrumentWithMetrics calls of fn
    outcome         \* how RunInstrumented ended

\* The state of the process supervisor.
supervisor == <<mtx, numRunning, cancelled, processes, runningGroups, contexts,
                done, tasks, callers, fatal>>

\* The state of the instrumented call.
runner == <<scope, inner, locals, span, Metrics, sink, at, panicValue,
            fnResult, iwm, outcome>>

\* One MetricsContext (src/visibility/metrics.go) and the span and statsd
\* client it is copied to, used by one thread.
VARIABLES
    met,            \* the MetricsContext: its Lock, OpName and Metrics
    metCall,        \* the call in progress, or the last call and its result
    fakeSpan,       \* the SetTag calls of the last CopyToSpan, in order
    recordingSink,  \* the Distribution calls of the last CopyToStatsd
    ledger          \* per name: the value last set and the values added since

\* The context values (part_003, metrics.go) and the RunInstrumented calls
\* nested in them.
VARIABLES
    ctxValues,      \* ctxValues[i]: the context.WithValue node i
    accumulators,   \* the MetricsContext objects made so far
    runs,           \* the RunInstrumented calls in progress, outermost first
    spans,          \* the number of spans started
    scopeCall       \* the last operation on a scope, and how it ended

\* One ShortenedStackTrace (part_003) and what it was rendered to.
VARIABLES
    trace,          \* the ShortenedStackTrace: skipToFirstPanic and stack
    rendered        \* the result of StringStack and of JSONStack

\* One MultiValueContext (part_005) over a parent context, used by one thread.
VARIABLES
    mvc,            \* the MultiValueContext: its embedded Context and its data
    mvcCall         \* the call in progress, or the last call and its result

\* One request served by the sizeLimiter (src/dada/lazy_defense.go).
VARIABLES
    request,        \* the request: its ContentLength, its body, the bytes read
    limited,        \* the LimitedReaderWithErr put in place of the body
    served          \* the response, and what the handler's reads returned

\* InstrumentWithMetrics calls (src/visibility/runner.go) of one thread on
\* the accumulator Metrics, one after the other and one within the other.
VARIABLES
    nest            \* the calls in progress and how the ended bodies ended

\* One PgConnectorWithRds (src/visibility/tracedsql/rds_connector.go) for an
\* RDS database and the Connect calls of one thread.
VARIABLES
    connect         \* the call: where it stands, the clock, timer and context

\* The state of the metric accumulator.
accumulator == <<met, metCall, fakeSpan, recordingSink, ledger>>

\* The state of the scopes.
scopes == <<ctxValues, accumulators, runs, spans, scopeCall>>

\* The state of the stack trace.
stacks == <<trace, rendered>>

\* The state of the multi-value context.
multi == <<mvc, mvcCall>>

\* The state of the size limiter.
defense == <<request, limited, served>>

\* The state of the wrappers.
wrappers == <<multi, defense, nest, connect>>

\* The state of the helpers.
helpers == <<accumulator, scopes, stacks, wrappers>>

vars == <<supervisor, runner, helpers>>

registry == <<processes, numRunning, runningGroups>>

\* ------------------------------------------------------------ helpers

Name(pc) == contexts[pc]

Contexts == 1..Len(contexts)

\* A goroutine: the context it runs, whether it is the periodic loop, where
\* it stands, and the panic it is unwinding with ("none": not panicking).
Task(pc, periodic, pos, panicking) ==
    [pc |-> pc, periodic |-> periodic, pos |-> pos, panicking |-> panicking]

Tasks == BagToSet(tasks)

\* The bag of goroutines after goroutine t moved on to state u.
Moved(t, u) == (tasks (-) SetToBag({t})) (+) SetToBag({u})

\* The bag of goroutines after goroutine t ended.
Ended(t) == tasks (-) SetToBag({t})

\* The bag of goroutines after a `go func()` statement.
Spawned(u) == tasks (+) SetToBag({u})

\* A caller between two calls; it keeps what its last call returned.
Idle == [op |-> "none", pc |-> NoProc, name |-> "", pos |-> "done",
         res |-> "none", snap |-> {}, again |-> FALSE]

\* Calls in flight that may still spawn a goroutine.
Starting == {c \in Callers : callers[c].op \in RunOps /\ callers[c].pos # "done"}

\* The program is running: no goroutine has died of a panic.
Running == fatal = "none"

\* The registry NewProcessRegistry returns, with no context created yet.
NewProcessRegistry ==
    /\ mtx = FALSE
    /\ numRunning = 0
    /\ cancelled = FALSE
    /\ processes = [n \in Names |-> NoProc]
    /\ runningGroups = 0
    /\ contexts = <<>>
    /\ done = <<>>
    /\ tasks = EmptyBag
    /\ callers = [c \in Callers |-> Idle]
    /\ fatal = "none"

\* ------------------------------------------------------ the registry lock

\* A lock that does not exclude: Lock returns at once.
MtxIgnored == TRUE

\* sync.Mutex.Lock returns only when no thread holds the mutex.
MtxFree == mtx = FALSE

Lock == MtxFree /\ mtx' = TRUE

Unlock == mtx' = FALSE

\* --------------------------------------------------- CreateProcessContext

CreateProcessContext(name) ==
    /\ Running
    /\ Len(contexts) < MaxContexts
    /\ contexts' = Append(contexts, name)
    /\ done' = Append(done, "open")
    /\ UNCHANGED <<runner, helpers, mtx, registry, cancelled, tasks, callers, fatal>>

\* ------------------------------------------- Run, TryRun, RunPeriodicProcess

\* A caller enters Run, TryRun or RunPeriodicProcess on context pc and
\* reaches p.mtx.Lock() of prepareRun.  `again` notes that the call is a Run
\* that directly follows a Run of the same caller on the same context which
\* returned normally.
Call(c, op, pc) ==
    /\ Running
    /\ callers[c].pos = "done"
    /\ Cardinality(Starting) + BagCardinality(tasks) < MaxTasks
    /\ callers' = [callers EXCEPT ![c] =
          [op |-> op, pc |-> pc, name |-> Name(pc), pos |-> "lock",
           res |-> "none", snap |-> {},
           again |-> /\ op = "Run"
                     /\ callers[c].op = "Run"
                     /\ callers[c].pc = pc
                     /\ callers[c].res = "true"]]
    /\ UNCHANGED <<runner, helpers, mtx, registry, cancelled, contexts, done, tasks, fatal>>

\* prepareRun: p.mtx.Lock()
PrepareRunLock(c) ==
    /\ Running
    /\ callers[c].pos = "lock"
    /\ Lock
    /\ callers' = [callers EXCEPT ![c].pos = "check"]
    /\ UNCHANGED <<runner, helpers, registry, cancelled, contexts, done, tasks, fatal>>

\* The call of caller c is over and returned res.
Returned(c, res) ==
    callers' = [callers EXCEPT ![c].pos = "done", ![c].res = res]

\* A TryRun that starts the goroutine before it looks at the result.
TryRunRejectedSpawns(c) ==
    /\ Returned(c, "false")
    /\ tasks' = Spawned(Task(callers[c].pc, FALSE, "body", "none"))

\* TryRun when prepareRun returned false: return false.
TryRunRejected(c) ==
    /\ Returned(c, "false")
    /\ UNCHANGED <<tasks>>

\* A Run that drops the result of TryRun.
RunRejectedSilently(c) ==
    /\ Returned(c, "false")
    /\ UNCHANGED <<tasks>>

\* Run when TryRun returned false: panic with the duplicate-name message.
RunRejected(c) ==
    /\ Returned(c, "panic")
    /\ UNCHANGED <<tasks>>

\* RunPeriodicProcess when prepareRun returned false: the result is not
\* looked at, and the loop goroutine is started all the same.
RunPeriodicProcessRejected(c) ==
    /\ Returned(c, "returned")
    /\ tasks' = Spawned(Task(callers[c].pc, TRUE, "body", "none"))

\* _, has := p.processes[pc.Name]
Has(name) == processes[name] # NoProc

\* prepareRun: the lookup; with the name present it returns false (and the
\* deferred Unlock runs), and the caller's operation goes on from there.
PrepareRunCheck(c) ==
    /\ Running
    /\ callers[c].pos = "check"
    /\ IF Has(callers[c].name)
       THEN /\ Unlock
            /\ CASE callers[c].op = "TryRun" -> TryRunRejected(c)
                 [] callers[c].op = "Run" -> RunRejected(c)
                 [] OTHER -> RunPeriodicProcessRejected(c)
       ELSE /\ callers' = [callers EXCEPT ![c].pos = "insert"]
            /\ UNCHANGED <<mtx, tasks>>
    /\ UNCHANGED <<runner, helpers, registry, cancelled, contexts, done, fatal>>

\* prepareRun: the insertion, the two counters, the deferred Unlock and
\* return true; then the `go func()` of the caller's operation and its
\* return.  (The go statement touches no shared state, so it is taken
\* together with the step before it.)
PrepareRunInsert(c) ==
    /\ Running
    /\ callers[c].pos = "insert"
    /\ processes' = [processes EXCEPT ![callers[c].name] = callers[c].pc]
    /\ numRunning' = (numRunning + 1) % Modulus
    /\ runningGroups' = runningGroups + 1
    /\ Unlock
    /\ tasks' = Spawned(Task(callers[c].pc,
                             callers[c].op = "RunPeriodicProcess",
                             "body", "none"))
    /\ Returned(c, IF callers[c].op = "RunPeriodicProcess"
                   THEN "returned" ELSE "true")
    /\ UNCHANGED <<runner, helpers, cancelled, contexts, done, fatal>>

\* ------------------------------------------------------- the goroutines

\* The body (RunInstrumented around proc) returns, with or without an
\* error: the error is logged and dropped.  The one-shot goroutine goes on
\* to its deferred calls, the periodic one to its select.
BodyReturn(t, err) ==
    /\ Running
    /\ t \in Tasks
    /\ t.pos = "body"
    /\ tasks' = Moved(t, [t EXCEPT !.pos = IF t.periodic THEN "select"
                                                         ELSE "markDone"])
    /\ UNCHANGED <<runner, helpers, mtx, registry, cancelled, contexts, done, callers, fatal>>

\* A body panic that ends the goroutine at once, its deferred calls unrun.
BodyPanicDies(t) ==
    /\ Running
    /\ t \in Tasks
    /\ t.pos = "body"
    /\ tasks' = Ended(t)
    /\ fatal' = "proc"
    /\ UNCHANGED <<runner, helpers, mtx, registry, cancelled, contexts, done, callers>>

\* The body panics: RunInstrumented raises the panic again, and the
\* goroutine unwinds through its deferred calls.
BodyPanic(t) ==
    /\ Running
    /\ t \in Tasks
    /\ t.pos = "body"
    /\ tasks' = Moved(t, [t EXCEPT !.pos = "markDone", !.panicking = "proc"])
    /\ UNCHANGED <<runner, helpers, mtx, registry, cancelled, contexts, done, callers, fatal>>

\* select: case <-ticker.C.  The ticker may have fired while the body ran or
\* fires now; the loop runs the body again.
SelectTick(t) ==
    /\ Running
    /\ t \in Tasks
    /\ t.pos = "select"
    /\ tasks' = Moved(t, [t EXCEPT !.pos = "body"])
    /\ UNCHANGED <<runner, helpers, mtx, registry, cancelled, contexts, done, callers, fatal>>

\* select: case <-pc.Parent.rootCtx.Done(): break loop.
SelectDone(t) ==
    /\ Running
    /\ t \in Tasks
    /\ t.pos = "select"
    /\ cancelled
    /\ tasks' = Moved(t, [t EXCEPT !.pos = "markDone"])
    /\ UNCHANGED <<runner, helpers, mtx, registry, cancelled, contexts, done, callers, fatal>>

\* markDone (deferred): p.mtx.Lock()
MarkDoneLock(t) ==
    /\ Running
    /\ t \in Tasks
    /\ t.pos = "markDone"
    /\ Lock
    /\ tasks' = Moved(t, [t EXCEPT !.pos = "locked"])
    /\ UNCHANGED <<runner, helpers, registry, cancelled, contexts, done, callers, fatal>>

\* A markDone that leaves the entry in the map.
DeleteNothing(procs, s) == procs

\* delete(p.processes, s)
Delete(procs, s) == [procs EXCEPT ![s] = NoProc]

\* atomic.AddUint64(&p.numRunning, ^uint64(0))
Decrement(n) == (n + Modulus - 1) % Modulus

\* markDone: the deletion, the two counters and the deferred Unlock.
\* runningGroups.Done() panics when the counter goes below zero; Unlock
\* runs all the same and the goroutine goes on unwinding.
markDone(t) ==
    /\ Running
    /\ t \in Tasks
    /\ t.pos = "locked"
    /\ processes' = Delete(processes, Name(t.pc))
    /\ numRunning' = Decrement(numRunning)
    /\ runningGroups' = runningGroups - 1
    /\ Unlock
    /\ tasks' = Moved(t, [t EXCEPT !.pos = "close",
                                   !.panicking = IF runningGroups' < 0
                                                 THEN "negative WaitGroup counter"
                                                 ELSE t.panicking])
    /\ UNCHANGED <<runner, helpers, cancelled, contexts, done, callers, fatal>>

\* close(pc.Done) (deferred), the last step of the goroutine.  Closing a
\* closed channel panics; a goroutine that ends panicking ends the program.
CloseDone(t) ==
    /\ Running
    /\ t \in Tasks
    /\ t.pos = "close"
    /\ tasks' = Ended(t)
    /\ IF done[t.pc] = "closed"
       THEN /\ fatal' = "close of closed channel"
            /\ UNCHANGED done
       ELSE /\ done' = [done EXCEPT ![t.pc] = "closed"]
            /\ fatal' = t.panicking
    /\ UNCHANGED <<runner, helpers, mtx, registry, cancelled, contexts, callers>>

\* ------------------------------------------------ LogRunning, HasProcess

\* Whether name x sorts before name y.
StrLess(x, y) ==
    \E i, j \in DOMAIN NameOrder :
        /\ NameOrder[i] = x
        /\ NameOrder[j] = y
        /\ i < j

\* sort.Strings(elems): the names of S in ascending order.
SortStrings(S) ==
    CHOOSE q \in [1..Cardinality(S) -> S] :
        \A i, j \in 1..Cardinality(S) : i < j => StrLess(q[i], q[j])

\* strings.Join(elems, sep)
RECURSIVE Join(_, _)
Join(elems, sep) ==
    IF Len(elems) = 0 THEN ""
    ELSE IF Len(elems) = 1 THEN elems[1]
    ELSE elems[1] \o sep \o Join(Tail(elems), sep)

\* What LogRunning returns in the current state.
LogRunning == Join(SortStrings({n \in Names : processes[n] # NoProc}), ", ")

\* What HasProcess(name) returns in the current state.
HasProcess(name) == processes[name] # NoProc

\* A caller enters HasProcess(name) or LogRunning(): p.mtx.Lock()
ObserveLock(c, op, name) ==
    /\ Running
    /\ callers[c].pos = "done"
    /\ Lock
    /\ callers' = [callers EXCEPT ![c] =
          [Idle EXCEPT !.op = op, !.name = name, !.pos = "read"]]
    /\ UNCHANGED <<runner, helpers, registry, cancelled, contexts, done, tasks, fatal>>

\* The read under the lock, the deferred Unlock and the return.
ObserveRead(c) ==
    /\ Running
    /\ callers[c].pos = "read"
    /\ Unlock
    /\ Returned(c, IF callers[c].op = "LogRunning" THEN LogRunning
                   ELSE IF HasProcess(callers[c].name) THEN "true"
                   ELSE "false")
    /\ UNCHANGED <<runner, helpers, registry, cancelled, contexts, done, tasks, fatal>>

\* --------------------------------------------------------- GetWaitChannel

\* ch := make(chan struct{}) without the close(ch) after it.
MakeChan == "open"

\* ch := make(chan struct{}); close(ch): a new channel, closed already.
MakeClosedChan == "closed"

\* A caller enters GetWaitChannel(name): p.mtx.Lock()
GetWaitChannelLock(c, name) ==
    /\ Running
    /\ callers[c].pos = "done"
    /\ Lock
    /\ callers' = [callers EXCEPT ![c] =
          [Idle EXCEPT !.op = "GetWaitChannel", !.name = name, !.pos = "lookup"]]
    /\ UNCHANGED <<runner, helpers, registry, cancelled, contexts, done, tasks, fatal>>

\* proc := p.processes[processName]; with no entry the new closed channel
\* is returned, otherwise proc.Done; the deferred Unlock.  The caller keeps
\* the context whose Done it got in pc (NoProc: the new channel), and in res
\* the state of the new channel.
GetWaitChannel(c) ==
    /\ Running
    /\ callers[c].pos = "lookup"
    /\ Unlock
    /\ callers' = [callers EXCEPT
          ![c].pos = "done",
          ![c].pc = processes[callers[c].name],
          ![c].res = IF processes[callers[c].name] = NoProc
                     THEN MakeClosedChan ELSE "Done"]
    /\ UNCHANGED <<runner, helpers, registry, cancelled, contexts, done, tasks, fatal>>

\* A receive on the channel the GetWaitChannel call of caller c returned
\* does not block.
WaitChannelClosed(c) ==
    IF callers[c].pc = NoProc THEN callers[c].res = "closed"
    ELSE done[callers[c].pc] = "closed"

\* ------------------------------------------------------------------ Close

\* Close: the call of p.LogRunning() for the first log line: p.mtx.Lock()
CloseLogRunningLock(c) ==
    /\ Running
    /\ callers[c].pos = "done"
    /\ Lock
    /\ callers' = [callers EXCEPT ![c] =
          [Idle EXCEPT !.op = "Close", !.pos = "logRunning"]]
    /\ UNCHANGED <<runner, helpers, registry, cancelled, contexts, done, tasks, fatal>>

\* Close: LogRunning reads the names and unlocks; the line is logged.  snap
\* is the set of contexts the logged names stand for.
CloseLogRunning(c) ==
    /\ Running
    /\ callers[c].pos = "logRunning"
    /\ Unlock
    /\ callers' = [callers EXCEPT ![c].pos = "cancel",
                                  ![c].res = LogRunning,
                                  ![c].snap = {processes[n] : n \in Names}
                                              \ {NoProc}]
    /\ UNCHANGED <<runner, helpers, registry, cancelled, contexts, done, tasks, fatal>>

\* Close: p.cancel()
CloseCancel(c) ==
    /\ Running
    /\ callers[c].pos = "cancel"
    /\ cancelled' = TRUE
    /\ callers' = [callers EXCEPT ![c].pos = "wait"]
    /\ UNCHANGED <<runner, helpers, mtx, registry, contexts, done, tasks, fatal>>

\* sync.WaitGroup.Wait returns when the counter is zero.
WaitGroupIdle == runningGroups = 0

\* Close: p.runningGroups.Wait() returns, and Close with it.
CloseWait(c) ==
    /\ Running
    /\ callers[c].pos = "wait"
    /\ WaitGroupIdle
    /\ Returned(c, "returned")
    /\ UNCHANGED <<runner, helpers, mtx, registry, cancelled, contexts, done, tasks, fatal>>

\* ====================================== the instrumented execution wrapper

\* Calls of InstrumentWithMetrics fn makes one after the other.
MaxInstrumented == 2
\* Counts fn adds to the accumulator itself.
MaxAdds == 1
\* Largest time, in seconds, the benchmark of InstrumentWithMetrics measures.
MaxElapsed == 1

ClientTypeNormal == "normal"
ClientTypeCanary == "canary"

\* The statsd clients a ctx can carry (the recording sinks of the tests).
Sinks == {"rs1", "rs2"}

\* The error values: nil and two errors.
Errors == {"nil", "test err", "bad error"}

\* The values fn calls panic with.
PanicArgs == {"nil", "bad panic"}

NoPanic == "no panic"

\* The metrics of the accumulator: the three outcome counts and the
\* benchmark of InstrumentWithMetrics, and a count fn adds.
MetricNames == {"Success", "Error", "Fault", "Time", "hellocount"}

\* m.Metrics[name] == nil
NoEntry == [Val |-> 0, Unit |-> "absent"]

\* The ctx values a call can start with, each of them primed with a logger
\* (RunInstrumented on a ctx without one: RunInstrumentedEnter).
Scopes == [statsd : Sinks \cup {"none"},
           clientType : {"none", ClientTypeNormal, ClientTypeCanary}]

\* panic(v) as the Go runtime raises it.  The module declares go 1.13:
\* there panic(nil) raises nil itself; built as part of a main module of
\* go 1.21 or later it raises a *runtime.PanicNilError.
GoPanic(v) == IF v = "nil" THEN {"nil", "PanicNilError"} ELSE {v}

GetStatsdFromContext(ctx) ==
    IF ctx.statsd = "none" THEN "NoOpClient" ELSE ctx.statsd

GetClientTypeFromContext(ctx) ==
    IF ctx.clientType = "none" THEN ClientTypeNormal ELSE ctx.clientType

\* utils.PanicIfF(cond, format, args...): panics when cond holds.
PanicIfF(cond) == cond

\* An AddMetric that stores the value in place of the sum.
AddMetricOverwrites(m, name, val, unit) ==
    IF m[name] = NoEntry
    THEN [m EXCEPT ![name] = [Val |-> val, Unit |-> unit]]
    ELSE IF PanicIfF(m[name].Unit # unit)
         THEN m
         ELSE [m EXCEPT ![name].Val = val]

\* An AddMetric that adds before it looks at the unit.
AddMetricAddsFirst(m, name, val, unit) ==
    IF m[name] = NoEntry
    THEN [m EXCEPT ![name] = [Val |-> val, Unit |-> unit]]
    ELSE [m EXCEPT ![name].Val = @ + val]

\* MetricsContext.AddMetric: a new entry, or the value added to the entry;
\* the map is left as it was when the call panics on the unit.
AddMetric(m, name, val, unit) ==
    IF m[name] = NoEntry
    THEN [m EXCEPT ![name] = [Val |-> val, Unit |-> unit]]
    ELSE IF PanicIfF(m[name].Unit # unit)
         THEN m
         ELSE [m EXCEPT ![name].Val = @ + val]

\* The call of AddMetric panics.
AddMetricPanics(m, name, unit) ==
    m[name] # NoEntry /\ PanicIfF(m[name].Unit # unit)

AddCount(m, name, val) == AddMetric(m, name, val, "Count")

\* TimeMeasurement.Done: AddDuration(name, elapsed)
AddDuration(m, name, seconds) == AddMetric(m, name, seconds, "Seconds")

\* A SetMetric that keeps the unit of the entry it finds.
SetMetricKeepsUnit(m, name, val, unit) ==
    IF m[name] = NoEntry
    THEN [m EXCEPT ![name] = [Val |-> val, Unit |-> unit]]
    ELSE [m EXCEPT ![name].Val = val]

\* MetricsContext.SetMetric
SetMetric(m, name, val, unit) ==
    [m EXCEPT ![name] = [Val |-> val, Unit |-> unit]]

SetCount(m, name, val) == SetMetric(m, name, val, "Count")

SetDuration(m, name, seconds) == SetMetric(m, name, seconds, "Seconds")

\* A normalized value: Val * 2^Exp2, in Unit.  A float64 multiplied by 1024
\* keeps its mantissa and has 10 added to its binary exponent.
Scaled(val, exp2, unit) == [Val |-> val, Exp2 |-> exp2, Unit |-> unit]

\* A Normalize with one factor of 1024 missing for terabits/second.
NormalizeShortTera(e) ==
    CASE e.Unit = "Seconds" -> Scaled(e.Val * 1000000, 0, "Microseconds")
      [] e.Unit = "Microseconds" -> Scaled(e.Val, 0, "Microseconds")
      [] e.Unit = "Milliseconds" -> Scaled(e.Val * 1000, 0, "Microseconds")
      [] e.Unit = "Bytes" -> Scaled(e.Val, 0, "Bytes")
      [] e.Unit = "Kilobytes" -> Scaled(e.Val, 10, "Bytes")
      [] e.Unit = "Megabytes" -> Scaled(e.Val, 10 + 10, "Bytes")
      [] e.Unit = "Gigabytes" -> Scaled(e.Val, 10 + 10 + 10, "Bytes")
      [] e.Unit = "Terabytes" -> Scaled(e.Val, 10 + 10 + 10 + 10, "Bytes")
      [] e.Unit = "Bits" -> Scaled(e.Val, 0, "Bits")
      [] e.Unit = "Kilobits" -> Scaled(e.Val, 10, "Bits")
      [] e.Unit = "Megabits" -> Scaled(e.Val, 10 + 10, "Bits")
      [] e.Unit = "Gigabits" -> Scaled(e.Val, 10 + 10 + 10, "Bits")
      [] e.Unit = "Terabits" -> Scaled(e.Val, 10 + 10 + 10 + 10, "Bits")
      [] e.Unit = "Percent" -> Scaled(e.Val, 0, "Percent")
      [] e.Unit = "Count" -> Scaled(e.Val, 0, "Count")
      [] e.Unit = "Bytes/Second" -> Scaled(e.Val, 0, "Bytes/Second")
      [] e.Unit = "Kilobytes/Second" -> Scaled(e.Val, 10, "Bytes/Second")
      [] e.Unit = "Megabytes/Second" -> Scaled(e.Val, 10 + 10, "Bytes/Second")
      [] e.Unit = "Gigabytes/Second" ->
             Scaled(e.Val, 10 + 10 + 10, "Bytes/Second")
      [] e.Unit = "Terabytes/Second" ->
             Scaled(e.Val, 10 + 10 + 10 + 10, "Bytes/Second")
      [] e.Unit = "Bits/Second" -> Scaled(e.Val, 0, "Bits/Second")
      [] e.Unit = "Kilobits/Second" -> Scaled(e.Val, 10, "Bits/Second")
      [] e.Unit = "Megabits/Second" -> Scaled(e.Val, 10 + 10, "Bits/Second")
      [] e.Unit = "Gigabits/Second" ->
             Scaled(e.Val, 10 + 10 + 10, "Bits/Second")
      [] e.Unit = "Terabits/Second" ->
             Scaled(e.Val, 10 + 10 + 10, "Bits/Second")
      [] e.Unit = "Count/Second" -> Scaled(e.Val, 0, "Count/Second")
      [] e.Unit = "None" -> Scaled(e.Val, 0, "None")
      [] OTHER -> Scaled(e.Val, 0, "None")

\* MetricEntry.Normalize
Normalize(e) ==
    CASE e.Unit = "Seconds" -> Scaled(e.Val * 1000000, 0, "Microseconds")
      [] e.Unit = "Microseconds" -> Scaled(e.Val, 0, "Microseconds")
      [] e.Unit = "Milliseconds" -> Scaled(e.Val * 1000, 0, "Microseconds")
      [] e.Unit = "Bytes" -> Scaled(e.Val, 0, "Bytes")
      [] e.Unit = "Kilobytes" -> Scaled(e.Val, 10, "Bytes")
      [] e.Unit = "Megabytes" -> Scaled(e.Val, 10 + 10, "Bytes")
      [] e.Unit = "Gigabytes" -> Scaled(e.Val, 10 + 10 + 10, "Bytes")
      [] e.Unit = "Terabytes" -> Scaled(e.Val, 10 + 10 + 10 + 10, "Bytes")
      [] e.Unit = "Bits" -> Scaled(e.Val, 0, "Bits")
      [] e.Unit = "Kilobits" -> Scaled(e.Val, 10, "Bits")
      [] e.Unit = "Megabits" -> Scaled(e.Val, 10 + 10, "Bits")
      [] e.Unit = "Gigabits" -> Scaled(e.Val, 10 + 10 + 10, "Bits")
      [] e.Unit = "Terabits" -> Scaled(e.Val, 10 + 10 + 10 + 10, "Bits")
      [] e.Unit = "Percent" -> Scaled(e.Val, 0, "Percent")
      [] e.Unit = "Count" -> Scaled(e.Val, 0, "Count")
      [] e.Unit = "Bytes/Second" -> Scaled(e.Val, 0, "Bytes/Second")
      [] e.Unit = "Kilobytes/Second" -> Scaled(e.Val, 10, "Bytes/Second")
      [] e.Unit = "Megabytes/Second" -> Scaled(e.Val, 10 + 10, "Bytes/Second")
      [] e.Unit = "Gigabytes/Second" ->
             Scaled(e.Val, 10 + 10 + 10, "Bytes/Second")
      [] e.Unit = "Terabytes/Second" ->
             Scaled(e.Val, 10 + 10 + 10 + 10, "Bytes/Second")
      [] e.Unit = "Bits/Second" -> Scaled(e.Val, 0, "Bits/Second")
      [] e.Unit = "Kilobits/Second" -> Scaled(e.Val, 10, "Bits/Second")
      [] e.Unit = "Megabits/Second" -> Scaled(e.Val, 10 + 10, "Bits/Second")
      [] e.Unit = "Gigabits/Second" ->
             Scaled(e.Val, 10 + 10 + 10, "Bits/Second")
      [] e.Unit = "Terabits/Second" ->
             Scaled(e.Val, 10 + 10 + 10 + 10, "Bits/Second")
      [] e.Unit = "Count/Second" -> Scaled(e.Val, 0, "Count/Second")
      [] e.Unit = "None" -> Scaled(e.Val, 0, "None")
      [] OTHER -> Scaled(e.Val, 0, "None")

\* What CopyToSpan and CopyToStatsd send: every entry there is, normalized.
Flushed(m) ==
    [n \in DOMAIN m |-> IF m[n] = NoEntry THEN NoEntry ELSE Normalize(m[n])]

\* span.SetTag(key, value)
SetTag(sp, key, value) ==
    [sp EXCEPT !.tags = {t \in @ : t[1] # key} \cup {<<key, value>>}]

\* A Finish that reports the span twice.
FinishTwice(sp, err) ==
    [sp EXCEPT !.finished = @ + 2, !.error = err]

\* span.Finish(), span.Finish(tracer.WithError(err)): err "nil" is no error.
Finish(sp, err) ==
    [sp EXCEPT !.finished = @ + 1, !.error = err]

\* The deferred calls in the order they are written.
DeferredAsWritten == <<"recover", "copyToStatsd", "copyToSpan">>

\* The deferred calls of RunInstrumented in the order they run, the last
\* deferred first: met.CopyToSpan (line 66), met.CopyToStatsd (line 65), the
\* function with recover() and span.Finish (lines 39-55).
Deferred == <<"copyToSpan", "copyToStatsd", "recover">>

\* Where the thread stands after the deferred call `call`.
AfterDeferred(call) ==
    LET i == CHOOSE j \in DOMAIN Deferred : Deferred[j] = call
    IN  IF i = Len(Deferred) THEN "done" ELSE Deferred[i + 1]

\* The state before RunInstrumented is called with ctx.
Entered(ctx) ==
    /\ scope = ctx
    /\ inner = ctx
    /\ locals = [statsd |-> "none", clientType |-> "none", err |-> "nil"]
    /\ span = [started |-> 0, finished |-> 0, name |-> "", error |-> "nil",
               tags |-> {}, metrics |-> <<>>]
    /\ Metrics = [n \in MetricNames |-> NoEntry]
    /\ sink = <<>>
    /\ panicValue = NoPanic
    /\ fnResult = "none"
    /\ iwm = [calls |-> 0, fresh |-> FALSE, state |-> "none",
              body |-> "nil", res |-> "nil", adds |-> 0]
    /\ outcome = [kind |-> "none", value |-> "nil"]

\* No call of RunInstrumented is made.
NoCall ==
    /\ Entered([statsd |-> "none", clientType |-> "none"])
    /\ at = "idle"

\* RunInstrumented: lines 27-29, the values read from ctx at entry.
ReadScope ==
    /\ at = "entry"
    /\ locals' = [locals EXCEPT
          !.statsd = GetStatsdFromContext(scope),
          !.clientType = GetClientTypeFromContext(scope)]
    /\ at' = "startSpan"
    /\ UNCHANGED <<supervisor, helpers, scope, inner, span, Metrics, sink, panicValue,
                   fnResult, iwm, outcome>>

\* RunInstrumented: lines 31-35, the span and its tags; and the deferred
\* function of lines 39-55 is registered.
StartSpan(name) ==
    /\ at = "startSpan"
    /\ span' = SetTag(SetTag([span EXCEPT !.started = @ + 1, !.name = name],
                             "resource.name", name),
                      "client-type", locals.clientType)
    /\ at' = "makeMetricContext"
    /\ UNCHANGED <<supervisor, helpers, scope, inner, locals, Metrics, sink,
                   panicValue, fnResult, iwm, outcome>>

\* RunInstrumented: lines 57-66, the logger and the new MetricsContext in
\* the ctx of fn; the two flushes are deferred with statsd and clientType
\* as they are now.
MakeMetricContext ==
    /\ at = "makeMetricContext"
    /\ Metrics' = [n \in MetricNames |-> NoEntry]
    /\ at' = "fn"
    /\ UNCHANGED <<supervisor, helpers, scope, inner, locals, span, sink, panicValue,
                   fnResult, iwm, outcome>>

\* fn: met.AddCount("hellocount", 1)
FnAddCount ==
    /\ at = "fn"
    /\ iwm.adds < MaxAdds
    /\ Metrics' = AddCount(Metrics, "hellocount", 1)
    /\ iwm' = [iwm EXCEPT !.adds = @ + 1]
    /\ UNCHANGED <<supervisor, helpers, scope, inner, locals, span, sink, at,
                   panicValue, fnResult, outcome>>

\* fn derives a ctx with another statsd client and client type, for the
\* calls it makes.
FnDerivesScope(ctx) ==
    /\ at = "fn"
    /\ inner = scope
    /\ ctx # scope
    /\ inner' = ctx
    /\ UNCHANGED <<supervisor, helpers, scope, locals, span, Metrics, sink, at,
                   panicValue, fnResult, iwm, outcome>>

\* fn returns err: err = fn(ctx); return err.  The deferred calls follow.
FnReturn(err) ==
    /\ at = "fn"
    /\ fnResult' = err
    /\ locals' = [locals EXCEPT !.err = err]
    /\ at' = Deferred[1]
    /\ UNCHANGED <<supervisor, helpers, scope, inner, span, Metrics, sink, panicValue,
                   iwm, outcome>>

\* fn calls panic(v): the assignment to err is not reached, and the
\* deferred calls run while the panic unwinds.
FnPanic(v) ==
    /\ at = "fn"
    /\ fnResult' = "panicked"
    /\ panicValue' \in GoPanic(v)
    /\ at' = Deferred[1]
    /\ UNCHANGED <<supervisor, helpers, scope, inner, locals, span, Metrics, sink,
                   iwm, outcome>>

\* A preset that leaves Fault at 0.
PresetNoFault(m) ==
    AddCount(AddCount(AddCount(m, "Success", 0), "Error", 0), "Fault", 0)

\* InstrumentWithMetrics: lines 75-77, the three counts are preset.
Preset(m) ==
    AddCount(AddCount(AddCount(m, "Success", 0), "Error", 0), "Fault", 1)

\* InstrumentWithMetrics: lines 74-80, the three counts are preset and the
\* benchmark is started; fresh notes that the accumulator had no entry.
InstrumentWithMetricsEnter ==
    /\ at = "fn"
    /\ iwm.calls < MaxInstrumented
    /\ Metrics' = Preset(Metrics)
    /\ iwm' = [iwm EXCEPT !.calls = @ + 1,
                          !.fresh = \A n \in MetricNames : Metrics[n] = NoEntry,
                          !.state = "running"]
    /\ at' = "inner"
    /\ UNCHANGED <<supervisor, helpers, scope, inner, locals, span, sink, panicValue,
                   fnResult, outcome>>

\* A classification that leaves the preset Fault count in place.
ClassifyKeepsFault(m, err) ==
    IF err = "nil" THEN AddCount(m, "Success", 1) ELSE AddCount(m, "Error", 1)

\* InstrumentWithMetrics: lines 88-94, after fn returned err.
Classify(m, err) ==
    IF err = "nil"
    THEN AddCount(AddCount(m, "Fault", -1), "Success", 1)
    ELSE AddCount(AddCount(m, "Fault", -1), "Error", 1)

\* The body of InstrumentWithMetrics returns err: the counts are set, the
\* deferred bench.Done() adds the time, and err is returned to fn.
InstrumentWithMetricsReturn(err, elapsed) ==
    /\ at = "inner"
    /\ Metrics' = AddDuration(Classify(Metrics, err), "Time", elapsed)
    /\ iwm' = [iwm EXCEPT !.state = "returned", !.body = err, !.res = err]
    /\ at' = "fn"
    /\ UNCHANGED <<supervisor, helpers, scope, inner, locals, span, sink, panicValue,
                   fnResult, outcome>>

\* The body of InstrumentWithMetrics panics: only the deferred bench.Done()
\* runs, and the panic unwinds through fn into RunInstrumented.
InstrumentWithMetricsPanic(v, elapsed) ==
    /\ at = "inner"
    /\ Metrics' = AddDuration(Metrics, "Time", elapsed)
    /\ iwm' = [iwm EXCEPT !.state = "panicked"]
    /\ fnResult' = "panicked"
    /\ panicValue' \in GoPanic(v)
    /\ at' = Deferred[1]
    /\ UNCHANGED <<supervisor, helpers, scope, inner, locals, span, sink, outcome>>

\* defer met.CopyToSpan(span): the last deferred call, the first to run.
CopyToSpan ==
    /\ at = "copyToSpan"
    /\ span' = [span EXCEPT !.metrics = Append(@, Flushed(Metrics))]
    /\ at' = AfterDeferred("copyToSpan")
    /\ UNCHANGED <<supervisor, helpers, scope, inner, locals, Metrics, sink,
                   panicValue, fnResult, iwm, outcome>>

\* The client and client type of the ctx fn ended with.
Ambient ==
    [client |-> GetStatsdFromContext(inner),
     clientType |-> GetClientTypeFromContext(inner)]

\* The arguments of the deferred CopyToStatsd: statsd and clientType as
\* RunInstrumented read them at entry.
Captured ==
    [client |-> locals.statsd, clientType |-> locals.clientType]

\* defer met.CopyToStatsd(statsd, clientType)
CopyToStatsd ==
    /\ at = "copyToStatsd"
    /\ sink' = Append(sink, [client |-> Captured.client,
                             clientType |-> Captured.clientType,
                             values |-> Flushed(Metrics)])
    /\ at' = AfterDeferred("copyToStatsd")
    /\ UNCHANGED <<supervisor, helpers, scope, inner, locals, span, Metrics,
                   panicValue, fnResult, iwm, outcome>>

\* The deferred function of lines 39-55 with recover() # nil: the span is
\* annotated and finished with the gopanic error, and p is raised again.
Repanic(p) ==
    /\ span' = Finish(SetTag(SetTag(span, "error.stack", "stack of " \o p),
                             "panic", p),
                      "gopanic: " \o p)
    /\ outcome' = [kind |-> "panic", value |-> p]
    /\ panicValue' = p

\* The deferred function with recover() = nil: the span is finished with
\* err, and RunInstrumented returns err.
FinishAndReturn ==
    /\ span' = Finish(span, locals.err)
    /\ outcome' = [kind |-> "return", value |-> locals.err]
    /\ panicValue' = NoPanic

\* if p := recover(); p != nil {...} else {...}: recover returns the value
\* of the panic, nil when there is none.
Recover ==
    /\ at = "recover"
    /\ IF panicValue \notin {NoPanic, "nil"}
       THEN Repanic(panicValue)
       ELSE FinishAndReturn
    /\ at' = AfterDeferred("recover")
    /\ UNCHANGED <<supervisor, helpers, scope, inner, locals, Metrics, sink, fnResult,
                   iwm>>

\* ================================================ the metric accumulator

\* Calls made on the MetricsContext in one run.
MaxCalls == 3
\* Largest value a call adds or sets.
MaxVal == 2

\* The metric names the calls use.
Keys == {"zonk", "speed"}

Vals == 1..MaxVal

\* The values of cloudwatch.StandardUnit.
Units ==
    {"Seconds", "Microseconds", "Milliseconds", "Bytes", "Kilobytes",
     "Megabytes", "Gigabytes", "Terabytes", "Bits", "Kilobits", "Megabits",
     "Gigabits", "Terabits", "Percent", "Count", "Bytes/Second",
     "Kilobytes/Second", "Megabytes/Second", "Gigabytes/Second",
     "Terabytes/Second", "Bits/Second", "Kilobits/Second", "Megabits/Second",
     "Gigabits/Second", "Terabits/Second", "Count/Second", "None"}

\* The units the calls of a run use.
UnitsUsed == {"Count", "Seconds", "Milliseconds", "Kilobytes",
              "Gigabits/Second"}

\* The methods of MetricsContext.
Methods == {"Reset", "GetMetric", "AddMetric", "SetMetric", "AddCount",
            "SetCount", "AddDuration", "SetDuration", "CopyToSpan",
            "CopyToStatsd"}

NoRaise == "none"

\* No value: of a call that returns none, of a tag that holds a string.
NoValue == [Val |-> 0, Exp2 |-> 0, Unit |-> "absent"]

\* strings.ReplaceAll(strings.Title(unit), "/", "Per") on the units
\* Normalize returns.
TitlePer(unit) ==
    CASE unit = "Bytes/Second" -> "BytesPerSecond"
      [] unit = "Bits/Second" -> "BitsPerSecond"
      [] unit = "Count/Second" -> "CountPerSecond"
      [] OTHER -> unit

\* utils.ToSnakeCase(s, '_') on these names.
ToSnakeCase(str) ==
    CASE str = "Microseconds" -> "microseconds"
      [] str = "Bytes" -> "bytes"
      [] str = "Bits" -> "bits"
      [] str = "Percent" -> "percent"
      [] str = "Count" -> "count"
      [] str = "BytesPerSecond" -> "bytes_per_second"
      [] str = "BitsPerSecond" -> "bits_per_second"
      [] str = "CountPerSecond" -> "count_per_second"
      [] str = "None" -> "none"

\* MetricsContext.normalizeUnitName
normalizeUnitName(unit) == ToSnakeCase(TitlePer(unit))

\* The names with an entry in the map.
Present(m) == {k \in DOMAIN m : m[k] # NoEntry}

\* The orders a range over a map with these keys can take.
Orders(S) ==
    {o \in [1..Cardinality(S) -> S] :
        \A i, j \in 1..Cardinality(S) : i # j => o[i] # o[j]}

\* One SetTag call: a number or a string under a key.
Tag(key, num, str) == [key |-> key, num |-> num, str |-> str]

\* A test of the unit that lets every metric have its unit tag.
TaggedAlways(normUnit) == TRUE

\* normUnit != cloudwatch.StandardUnitCount
TaggedWithUnit(normUnit) == normUnit # "Count"

\* The body of the loop of CopyToSpan for one entry.
SpanTags(name, e) ==
    LET n == Normalize(e)
    IN  <<Tag(name, [n EXCEPT !.Unit = "number"], "")>>
        \o (IF TaggedWithUnit(n.Unit)
            THEN <<Tag(name \o "_unit", NoValue, normalizeUnitName(n.Unit))>>
            ELSE <<>>)

\* The tags with the client type first.
TagsClientTypeFirst(normUnitName, clientType) ==
    <<"client-type:" \o clientType, "unit:" \o normUnitName>>

\* []string{"unit:" + normUnitName, "client-type:" + clientType}
DistributionTags(normUnitName, clientType) ==
    <<"unit:" \o normUnitName, "client-type:" \o clientType>>

\* The body of the loop of CopyToStatsd for one entry: the Distribution
\* call, and the error the client answered it with.
Distribution(opName, name, e, clientType, err) ==
    LET n == Normalize(e)
    IN  [name |-> opName \o "." \o name,
         value |-> [n EXCEPT !.Unit = "number"],
         tags |-> DistributionTags(normalizeUnitName(n.Unit), clientType),
         rate |-> 1,
         err |-> err]

\* The SetTag calls of the loop of CopyToSpan over the map, in this order.
SpanLoop(order, m) ==
    LET calls[i \in 0..Len(order)] ==
            IF i = 0 THEN <<>>
            ELSE calls[i - 1] \o SpanTags(order[i], m[order[i]])
    IN  calls[Len(order)]

\* The Distribution calls of the loop of CopyToStatsd over the map, in this
\* order, and the errors the client answers them with.
StatsdLoop(order, m, opName, clientType, errs) ==
    LET calls[i \in 0..Len(order)] ==
            IF i = 0 THEN <<>>
            ELSE Append(calls[i - 1],
                        Distribution(opName, order[i], m[order[i]],
                                     clientType, errs[order[i]]))
    IN  calls[Len(order)]

\* Nothing was set or added under a name: the value last set, the sum of
\* the values added since, their unit, and the unit before the last set.
NoLedger == [set |-> 0, added |-> 0, unit |-> "absent", was |-> "absent"]

\* A new MetricsContext (MakeMetricContext) that no call was made on.
NoMetrics ==
    /\ met = [Lock |-> FALSE, OpName |-> "TestOp",
              Metrics |-> [k \in Keys |-> NoEntry]]
    /\ metCall = [op |-> "none", pos |-> "idle", raised |-> NoRaise,
                  result |-> NoValue, n |-> 0]
    /\ fakeSpan = <<>>
    /\ recordingSink = <<>>
    /\ ledger = [k \in Keys |-> NoLedger]

\* The values of the entries that are normalized.
NormVals == {1, 2, 125, 500}

\* A MetricsContext with one entry, as SetMetric(name, val, unit) leaves it.
Loaded(name, val, unit) ==
    /\ met = [Lock |-> FALSE, OpName |-> "TestOp",
              Metrics |-> SetMetric([k \in Keys |-> NoEntry], name, val, unit)]
    /\ metCall = [op |-> "SetMetric", pos |-> "returned", raised |-> NoRaise,
                  result |-> NoValue, n |-> 1]
    /\ fakeSpan = <<>>
    /\ recordingSink = <<>>
    /\ ledger = [k \in Keys |->
                   IF k = name
                   THEN [set |-> val, added |-> 0, unit |-> unit,
                         was |-> "absent"]
                   ELSE NoLedger]

\* m.Lock.Lock() at the head of a method.
MetLock(op) ==
    /\ metCall.pos # "locked"
    /\ metCall.n < MaxCalls
    /\ ~met.Lock
    /\ met' = [met EXCEPT !.Lock = TRUE]
    /\ metCall' = [op |-> op, pos |-> "locked", raised |-> NoRaise,
                   result |-> NoValue, n |-> metCall.n + 1]
    /\ fakeSpan' = <<>>
    /\ recordingSink' = <<>>
    /\ UNCHANGED <<supervisor, runner, scopes, stacks, wrappers, ledger>>

\* The deferred m.Lock.Unlock() of a method that ends as raised says.
Ends(metrics, raised, result) ==
    /\ met' = [met EXCEPT !.Lock = FALSE, !.Metrics = metrics]
    /\ metCall' = [metCall EXCEPT
                      !.pos = IF raised = NoRaise THEN "returned"
                              ELSE "panicked",
                      !.raised = raised, !.result = result]
    /\ UNCHANGED <<supervisor, runner, scopes, stacks, wrappers>>

\* The body of Reset.
ResetCall ==
    /\ metCall.pos = "locked" /\ metCall.op = "Reset"
    /\ Ends([k \in Keys |-> NoEntry], NoRaise, NoValue)
    /\ ledger' = [k \in Keys |-> NoLedger]
    /\ UNCHANGED <<fakeSpan, recordingSink>>

\* The body of GetMetric.
GetMetricCall(name) ==
    /\ metCall.pos = "locked" /\ metCall.op = "GetMetric"
    /\ Ends(met.Metrics, NoRaise,
            IF met.Metrics[name] = NoEntry THEN Scaled(0, 0, "None")
            ELSE Scaled(met.Metrics[name].Val, 0, met.Metrics[name].Unit))
    /\ UNCHANGED <<fakeSpan, recordingSink, ledger>>

\* The body of AddMetric, as op calls it.
AddMetricBody(op, name, val, unit) ==
    /\ metCall.pos = "locked" /\ metCall.op = op
    /\ Ends(AddMetric(met.Metrics, name, val, unit),
            IF AddMetricPanics(met.Metrics, name, unit)
            THEN "inconsistent unit assignment" ELSE NoRaise,
            NoValue)
    /\ ledger' = IF metCall'.raised # NoRaise THEN ledger
                 ELSE [ledger EXCEPT
                         ![name].added = @ + val,
                         ![name].unit = IF @ = "absent" THEN unit ELSE @]
    /\ UNCHANGED <<fakeSpan, recordingSink>>

AddMetricCall(name, val, unit) == AddMetricBody("AddMetric", name, val, unit)

AddCountCall(name, val) == AddMetricBody("AddCount", name, val, "Count")

\* duration.Seconds() of a duration of whole seconds.
AddDurationCall(name, seconds) ==
    AddMetricBody("AddDuration", name, seconds, "Seconds")

\* The body of SetMetric, as op calls it.
SetMetricBody(op, name, val, unit) ==
    /\ metCall.pos = "locked" /\ metCall.op = op
    /\ Ends(SetMetric(met.Metrics, name, val, unit), NoRaise, NoValue)
    /\ ledger' = [ledger EXCEPT
                    ![name] = [set |-> val, added |-> 0, unit |-> unit,
                               was |-> ledger[name].unit]]
    /\ UNCHANGED <<fakeSpan, recordingSink>>

SetMetricCall(name, val, unit) == SetMetricBody("SetMetric", name, val, unit)

SetCountCall(name, val) == SetMetricBody("SetCount", name, val, "Count")

SetDurationCall(name, seconds) ==
    SetMetricBody("SetDuration", name, seconds, "Seconds")

\* The body of CopyToSpan: the range over the map takes some order.
CopyToSpanCall ==
    /\ metCall.pos = "locked" /\ metCall.op = "CopyToSpan"
    /\ \E order \in Orders(Present(met.Metrics)) :
          fakeSpan' = SpanLoop(order, met.Metrics)
    /\ Ends(met.Metrics, NoRaise, NoValue)
    /\ UNCHANGED <<recordingSink, ledger>>

\* The body of CopyToStatsd: the range over the map takes some order, and
\* the client answers each call with nil or with an error.
CopyToStatsdCall(clientType) ==
    /\ metCall.pos = "locked" /\ metCall.op = "CopyToStatsd"
    /\ \E order \in Orders(Present(met.Metrics)) :
       \E errs \in [Present(met.Metrics) -> {"nil", "test err"}] :
          recordingSink' = StatsdLoop(order, met.Metrics, met.OpName,
                                      clientType, errs)
    /\ Ends(met.Metrics, NoRaise, NoValue)
    /\ UNCHANGED <<fakeSpan, ledger>>

\* ====================================================== the scopes

\* Context values derived in one run.
MaxScopes == 4
\* RunInstrumented calls nested in one another.
MaxDepth == 2

\* The names RunInstrumented and MakeMetricContext are called with.
OpNames == {"test1", "nested"}

\* ctx.Value(loggerKeyVal) == nil
NoLogger == "nil"

\* context.Background(): no logger, no MetricsContext, no span.
Background == [parent |-> 0, logger |-> NoLogger, metrics |-> 0, span |-> 0]

\* The contexts there are: 0 is context.Background().
Scoped == 0..Len(ctxValues)

\* What ctx.Value finds for each key of a context.
Bindings(ctx) == IF ctx = 0 THEN Background ELSE ctxValues[ctx]

\* context.WithValue(ctx, key, value): the value hides the one of the parent.
WithValue(ctx, key, value) ==
    [Bindings(ctx) EXCEPT ![key] = value, !.parent = ctx]

RECURSIVE DerivedFrom(_, _)
\* ctx is anc or was derived from it.
DerivedFrom(ctx, anc) ==
    IF ctx = anc THEN TRUE
    ELSE IF ctx = 0 THEN FALSE
    ELSE DerivedFrom(Bindings(ctx).parent, anc)

\* A CL that answers a scope without a logger with a logger of its own.
CLNop(ctx) ==
    IF Bindings(ctx).logger = NoLogger
    THEN [logger |-> "nop", raised |-> NoRaise]
    ELSE [logger |-> Bindings(ctx).logger, raised |-> NoRaise]

\* CL(ctx): the logger of the scope, or the panic.
CL(ctx) ==
    IF Bindings(ctx).logger = NoLogger
    THEN [logger |-> NoLogger,
          raised |-> "Trying to log from an un-imbued context"]
    ELSE [logger |-> Bindings(ctx).logger, raised |-> NoRaise]

\* CLS(ctx): CL(ctx), then logger.Sugar().
CLS(ctx) == CL(ctx)

\* A MakeMetricContext that hands out the MetricsContext of the parent.
SharedMetricsContext(ctx) ==
    IF Bindings(ctx).metrics # 0 THEN Bindings(ctx).metrics
    ELSE Len(accumulators) + 1

\* &MetricsContext{...} in MakeMetricContext: a new object.
NewMetricsContext(ctx) == Len(accumulators) + 1

\* The MetricsContext objects after MakeMetricContext(ctx, opName).
Allocated(ctx, opName) ==
    IF NewMetricsContext(ctx) > Len(accumulators)
    THEN Append(accumulators, [OpName |-> opName, Count |-> 0])
    ELSE accumulators

\* How the last operation on a scope ended.
Outcome(op, raised) == [op |-> op, raised |-> raised]

NoScopes ==
    /\ ctxValues = <<>>
    /\ accumulators = <<>>
    /\ runs = <<>>
    /\ spans = 0
    /\ scopeCall = Outcome("none", NoRaise)

\* A panic in fn unwinds every RunInstrumented call in progress: each one
\* re-raises it.
Unwound(raised) == IF raised = NoRaise THEN runs ELSE <<>>

\* ctx2 := ImbueContext(ctx, logger)
ImbueContext(ctx, logger) ==
    /\ Len(ctxValues) < MaxScopes
    /\ ctxValues' = Append(ctxValues, WithValue(ctx, "logger", logger))
    /\ scopeCall' = Outcome("ImbueContext", NoRaise)
    /\ UNCHANGED <<supervisor, runner, accumulator, stacks, wrappers, accumulators,
                   runs, spans>>

\* ctx2 := MakeMetricContext(ctx, opName)
MakeMetricContextOn(ctx, opName) ==
    /\ Len(ctxValues) < MaxScopes
    /\ accumulators' = Allocated(ctx, opName)
    /\ ctxValues' = Append(ctxValues,
                           WithValue(ctx, "metrics", NewMetricsContext(ctx)))
    /\ scopeCall' = Outcome("MakeMetricContext", NoRaise)
    /\ UNCHANGED <<supervisor, runner, accumulator, stacks, wrappers, runs, spans>>

\* CL(ctx) or CLS(ctx), by the test or by fn.
Log(op, ctx) ==
    /\ scopeCall' = Outcome(op, IF op = "CL" THEN CL(ctx).raised
                              ELSE CLS(ctx).raised)
    /\ runs' = Unwound(scopeCall'.raised)
    /\ UNCHANGED <<supervisor, runner, accumulator, stacks, wrappers, ctxValues,
                   accumulators, spans>>

\* GetMetricsFromContext(ctx).AddCount("hellocount", 1)
RecordCount(ctx) ==
    LET m == Bindings(ctx).metrics
        raised == IF PanicIfF(m = 0) THEN "No metrics context attached"
                  ELSE NoRaise
    IN  /\ m # 0 => accumulators[m].Count < MaxAdds
        /\ accumulators' =
              IF m = 0 THEN accumulators
              ELSE [accumulators EXCEPT ![m].Count = @ + 1]
        /\ scopeCall' = Outcome("AddCount", raised)
        /\ runs' = Unwound(raised)
        /\ UNCHANGED <<supervisor, runner, accumulator, stacks, wrappers, ctxValues,
                       spans>>

\* RunInstrumented(ctx, name, fn) up to its call of fn: the logger of ctx,
\* the span, and the scope fn is called with.
RunInstrumentedEnter(ctx, name) ==
    IF CL(ctx).raised # NoRaise
    THEN /\ scopeCall' = Outcome("RunInstrumented", CL(ctx).raised)
              /\ runs' = Unwound(CL(ctx).raised)
         /\ UNCHANGED <<ctxValues, accumulators, spans>>
         /\ UNCHANGED <<supervisor, runner, accumulator, stacks, wrappers>>
    ELSE /\ Len(runs) < MaxDepth
         /\ Len(ctxValues) < MaxScopes
         /\ spans' = spans + 1
         /\ accumulators' = Allocated(ctx, name)
         /\ LET spanned == [Bindings(ctx) EXCEPT !.span = spans + 1]
                logger == CL(ctx).logger \o "." \o name
                derived == [spanned EXCEPT
                              !.logger = logger,
                              !.metrics = NewMetricsContext(ctx),
                              !.parent = ctx]
            IN  /\ ctxValues' = Append(ctxValues, derived)
                /\ runs' = Append(runs,
                                  [name |-> name, ctx |-> ctx,
                                   derived |-> Len(ctxValues) + 1,
                                   before |-> Bindings(ctx)])
         /\ scopeCall' = Outcome("RunInstrumented", "running")
         /\ UNCHANGED <<supervisor, runner, accumulator, stacks, wrappers>>

\* fn returns, and with it the innermost RunInstrumented.
RunInstrumentedReturn ==
    /\ runs # <<>>
    /\ runs' = SubSeq(runs, 1, Len(runs) - 1)
    /\ scopeCall' = Outcome("RunInstrumented", NoRaise)
    /\ UNCHANGED <<supervisor, runner, accumulator, stacks, wrappers, ctxValues,
                   accumulators, spans>>

\* ================================================= the stack trace

\* Largest number of panics on the way when the stack is captured: the
\* first one and the ones the deferred functions raised again.
MaxPanics == 3

\* A runtime.Frame: File split at "/", Line, and Function split into the
\* directories of its package path and the dot-separated rest.
Frame(file, line, dirs, parts) ==
    [File |-> file, Line |-> line,
     Function |-> [dirs |-> dirs, parts |-> parts]]

\* Where the Go distribution was built.
GoRoot == <<"", "usr", "local", "go", "src">>

\* Where the program was built.
BuildRoot == <<"", "home", "user", "src">>

\* runtime.gopanic, the frame of a panic() call on the way.
Gopanic ==
    Frame(GoRoot \o <<"runtime", "panic.go">>, 679, <<>>,
          <<"runtime", "gopanic">>)

\* The last frame of a goroutine and of the main goroutine.
LastFrames ==
    {Frame(GoRoot \o <<"runtime", "asm_amd64.s">>, 1357, <<>>,
           <<"runtime", "goexit">>),
     Frame(GoRoot \o <<"runtime", "proc.go">>, 203, <<>>,
           <<"runtime", "main">>)}

\* The method of the comment of parseFrame: pkg/sub.Type.Method.
Method ==
    Frame(BuildRoot \o <<"pkg", "sub", "file.go">>, 42, <<"pkg">>,
          <<"sub", "Type", "Method">>)

\* The deferred function that calls NewShortenedStackTrace.
Handler ==
    Frame(BuildRoot \o <<"pkg", "sub", "file.go">>, 80, <<"pkg">>,
          <<"sub", "TestPanicSearch", "func1">>)

\* A deferred function that recovers and panics again.
Reraiser ==
    Frame(BuildRoot \o <<"pkg", "sub", "file.go">>, 90, <<"pkg">>,
          <<"sub", "TestPanicSearch", "func2">>)

\* The functions that call panic(): one below the build root, one of a
\* file with fewer separators than the label asks for.
Sites ==
    {Frame(BuildRoot \o <<"pkg", "sub", "file.go">>, 98, <<"pkg">>,
           <<"sub", "TestPanicSearch">>),
     Frame(<<"", "main.go">>, 12, <<>>, <<"main", "main">>)}

\* The frames from which the stack is captured.
Tops == {<<Handler>>, <<Method, Handler>>}

\* The frames between the panic site and the last frame.
CallerFrames ==
    {<<>>,
     <<Frame(GoRoot \o <<"testing", "testing.go">>, 909, <<>>,
             <<"testing", "tRunner">>)>>,
     <<Method,
       Frame(GoRoot \o <<"testing", "testing.go">>, 909, <<>>,
             <<"testing", "tRunner">>)>>}

RECURSIVE Panics(_)
\* The frames of k panics on the way: the first panic was recovered and
\* raised again k - 1 times.
Panics(k) ==
    IF k = 0 THEN <<>>
    ELSE IF k = 1 THEN <<Gopanic>>
    ELSE <<Gopanic, Reraiser>> \o Panics(k - 1)

\* The stacks runtime.Callers captures.
Stacks ==
    {top \o below \o <<last>> :
        top \in Tops, below \in CallerFrames, last \in LastFrames}
    \cup
    {top \o Panics(k) \o <<site>> \o below \o <<last>> :
        top \in Tops, k \in 1..MaxPanics, site \in Sites,
        below \in CallerFrames, last \in LastFrames}

RECURSIVE LastIndexLoop(_, _, _, _)
\* The loop of parseFrame: n of g separators were found from the end of
\* the path, and tail segments lie behind the last one found.  The result
\* is the number of segments kept: all of them when a separator is missing.
LastIndexLoop(path, tail, n, g) ==
    IF n >= g THEN tail
    ELSE IF Len(path) - tail - 1 < 1 THEN Len(path)
    ELSE LastIndexLoop(path, tail + 1, n + 1, g)

\* A parseFrame that strips the label up to its last dot.
parseFrameLastDot(frame) ==
    LET g == Len(frame.Function.dirs) + 2
        kept == LastIndexLoop(frame.File, 0, 0, g)
        parts == frame.Function.parts
    IN  [path |-> SubSeq(frame.File, Len(frame.File) - kept + 1,
                         Len(frame.File)),
         line |-> frame.Line,
         label |-> <<parts[Len(parts)]>>]

\* ShortenedStackTrace.parseFrame: the path without the build root, the
\* line, and the label without the package path and the package name.
parseFrame(frame) ==
    LET g == Len(frame.Function.dirs) + 2
        kept == LastIndexLoop(frame.File, 0, 0, g)
        parts == frame.Function.parts
    IN  [path |-> SubSeq(frame.File, Len(frame.File) - kept + 1,
                         Len(frame.File)),
         line |-> frame.Line,
         label |-> IF Len(parts) > 1 THEN Tail(parts) ELSE parts]

\* The files of the directory runtime whose name begins with "panic".
PanicFiles == {"panic.go"}

\* strings.HasPrefix(path, "runtime/panic") && label == "gopanic"
IsGopanic(parsed) ==
    /\ Len(parsed.path) >= 2
    /\ parsed.path[1] = "runtime"
    /\ parsed.path[2] \in PanicFiles
    /\ parsed.label = <<"gopanic">>

\* The frames the loops over frames.Next() look at: not the last one.
Iterated(stack) == SubSeq(stack, 1, Len(stack) - 1)

\* A countPanics that stops at the first panic it finds.
countPanicsFirstMatch(stack) ==
    IF \E i \in 1..Len(Iterated(stack)) : IsGopanic(parseFrame(stack[i]))
    THEN 1 ELSE 0

\* ShortenedStackTrace.countPanics
countPanics(stack) ==
    LET frames == Iterated(stack)
        panics[i \in 0..Len(frames)] ==
            IF i = 0 THEN 0
            ELSE IF IsGopanic(parseFrame(frames[i]))
                 THEN panics[i - 1] + 1
                 ELSE panics[i - 1]
    IN  panics[Len(frames)]

\* The loop of StringStack and of JSONStack: the parsed frames appended to
\* the result.
Appended(s) ==
    LET frames == Iterated(s.stack)
        loop[i \in 0..Len(frames)] ==
            IF i = 0
            THEN [panicsToSkip |-> IF s.skipToFirstPanic
                                   THEN countPanics(s.stack) ELSE 0,
                  res |-> <<>>]
            ELSE LET before == loop[i - 1]
                     parsed == parseFrame(frames[i])
                 IN  IF before.panicsToSkip > 0 /\ IsGopanic(parsed)
                     THEN [before EXCEPT !.panicsToSkip = @ - 1]
                     ELSE IF before.panicsToSkip > 0
                     THEN before
                     ELSE [before EXCEPT !.res = Append(@, parsed)]
    IN  loop[Len(frames)].res

\* path + ":" + strconv.Itoa(line)
Fl(parsed) == Join(parsed.path, "/") \o ":" \o ToString(parsed.line)

\* ShortenedStackTrace.StringStack: the lines of the result, each of which
\* it ends with "\n".
StringStack(s) ==
    [i \in 1..Len(Appended(s)) |->
        Fl(Appended(s)[i]) \o " " \o Join(Appended(s)[i].label, ".")]

\* ShortenedStackTrace.JSONStack
JSONStack(s) ==
    [i \in 1..Len(Appended(s)) |->
        [Fl |-> Fl(Appended(s)[i]), Fn |-> Join(Appended(s)[i].label, ".")]]

\* No stack was captured.
NoStacks ==
    /\ trace = [skipToFirstPanic |-> FALSE, stack |-> <<>>]
    /\ rendered = [string |-> <<"not rendered">>, json |-> <<>>,
                   calls |-> {}]

\* NewShortenedStackTrace(skipFrames, skipToFirstPanic, msg)
NewShortenedStackTrace(skipToFirstPanic, stack) ==
    /\ trace = [skipToFirstPanic |-> skipToFirstPanic, stack |-> stack]
    /\ rendered = [string |-> <<"not rendered">>, json |-> <<>>,
                   calls |-> {}]

\* s.StringStack()
StringStackCall ==
    /\ trace.stack # <<>>
    /\ "StringStack" \notin rendered.calls
    /\ rendered' = [rendered EXCEPT !.string = StringStack(trace),
                                    !.calls = @ \cup {"StringStack"}]
    /\ UNCHANGED <<supervisor, runner, accumulator, scopes, wrappers, trace>>

\* s.JSONStack()
JSONStackCall ==
    /\ trace.stack # <<>>
    /\ "JSONStack" \notin rendered.calls
    /\ rendered' = [rendered EXCEPT !.json = JSONStack(trace),
                                    !.calls = @ \cup {"JSONStack"}]
    /\ UNCHANGED <<supervisor, runner, accumulator, scopes, wrappers, trace>>

\* ============================================ the multi-value context

\* The longest dataList a caller passes.
MaxList == 4
\* The frames a goroutine stack holds before the runtime gives up.
MaxFrames == 3

\* The keys and the values (interface{}) of callers and parents.
Items == {"a", "b"}
\* The nil interface value.
Nil == "nil"

\* The lists NewMultiValueContext is called with.
DataLists == UNION {[1..n -> Items] : n \in 0..MaxList}

\* The parent contexts: what Value answers, the deadline, and Err (Done is
\* closed exactly when Err is not nil).
Parents ==
    [value : [Items -> Items \cup {Nil}], deadline : {"none", "t1"},
     err : {Nil, "context canceled"}]

\* parent.Done()
DoneOf(parent) == IF parent.err = Nil THEN "open" ELSE "closed"

\* make(map[interface{}]interface{}, n)
MakeMap == [k \in {} |-> Nil]

\* val, ok := mp[key]
Index(mp, key) ==
    IF key \in DOMAIN mp THEN [val |-> mp[key], ok |-> TRUE]
    ELSE [val |-> Nil, ok |-> FALSE]

\* mp[key] = val
Assign(mp, key, val) ==
    [k \in DOMAIN mp \cup {key} |-> IF k = key THEN val ELSE mp[k]]

\* The loop of NewMultiValueContext: mp[dataList[i*2]] = mp[dataList[i*2+1]]
\* (dataList is indexed from 0 in the code and from 1 here).
Populated(dataList) ==
    LET mp[i \in 0..(Len(dataList) \div 2)] ==
            IF i = 0 THEN MakeMap
            ELSE Assign(mp[i - 1], dataList[2 * i - 1],
                        Index(mp[i - 1], dataList[2 * i]).val)
    IN  mp[Len(dataList) \div 2]

\* No MultiValueContext was made.
NoContext == [made |-> FALSE]

NoMulti ==
    /\ mvc = NoContext
    /\ mvcCall = [op |-> "none", pos |-> "returned"]

\* The thread is between two calls.
MultiIdle == mvcCall.pos \in {"returned", "panicked"}

\* NewMultiValueContext(parent, dataList...)
NewMultiValueContext(parent, dataList) ==
    /\ MultiIdle /\ ~mvc.made
    /\ IF PanicIfF(Len(dataList) % 2 # 0)
       THEN /\ mvcCall' = [op |-> "NewMultiValueContext", pos |-> "panicked",
                           parent |-> parent, dataList |-> dataList]
            /\ mvc' = mvc
       ELSE /\ mvcCall' = [op |-> "NewMultiValueContext", pos |-> "returned",
                           parent |-> parent, dataList |-> dataList]
            /\ mvc' = [made |-> TRUE, Context |-> parent,
                       data |-> Populated(dataList), dataList |-> dataList]
    /\ UNCHANGED <<supervisor, runner, accumulator, scopes, stacks, nest, connect,
                   defense>>

\* m.Value(key)
Value(m, key) ==
    IF Index(m.data, key).ok THEN Index(m.data, key).val
    ELSE m.Context.value[key]

ValueCall(key) ==
    /\ MultiIdle /\ mvc.made
    /\ mvcCall' = [op |-> "Value", pos |-> "returned", key |-> key,
                   result |-> Value(mvc, key)]
    /\ UNCHANGED <<supervisor, runner, accumulator, scopes, stacks, nest, connect,
                   defense, mvc>>

\* The parent context is cancelled.
CancelParent ==
    /\ MultiIdle /\ mvc.made /\ mvc.Context.err = Nil
    /\ mvc' = [mvc EXCEPT !.Context.err = "context canceled"]
    /\ UNCHANGED <<supervisor, runner, accumulator, scopes, stacks, nest, connect,
                   defense, mvcCall>>

\* The methods of context.Context MultiValueContext defines besides Value.
Delegates == {"Deadline", "Done", "Err"}

\* m.Deadline(), m.Done(), m.Err(): the call enters the method.
DelegateCall(op) ==
    /\ MultiIdle /\ mvc.made
    /\ mvcCall' = [op |-> op, pos |-> "running", frames |-> 1]
    /\ UNCHANGED <<supervisor, runner, accumulator, scopes, stacks, nest, connect,
                   defense, mvc>>

\* The body of the method: `return m.Deadline()` (m.Done(), m.Err()) on the
\* receiver itself, which is one more frame of the same method; when the
\* stack is full the runtime ends the program ("stack overflow").
DelegateBody ==
    /\ mvcCall.pos = "running"
    /\ mvcCall' = IF mvcCall.frames < MaxFrames
                  THEN [mvcCall EXCEPT !.frames = @ + 1]
                  ELSE [mvcCall EXCEPT !.pos = "stack overflow"]
    /\ UNCHANGED <<supervisor, runner, accumulator, scopes, stacks, nest, connect,
                   defense, mvc>>

\* ================================================= the request size limiter

\* The limit the server is made with (TestEchoReqTooLarge uses 1000).
maxRequestSize == 2
\* The bytes a body can have beyond the limit.
MaxOver == 2
\* The longest buffer a handler reads into.
MaxBuf == 3
\* The Read calls of one handler.
MaxReads == 4

ReqTooLargeError == "request is too large"
StatusRequestEntityTooLarge == 413

\* The sizes of the bodies sent.
BodySizes == 0..(maxRequestSize + MaxOver)
\* Request.ContentLength: the declared length, or -1 when it is unknown; a
\* request handed to ServeHTTP can declare any length (the test sets 0).
ContentLengths == {-1} \cup BodySizes

Min(a, b) == IF a < b THEN a ELSE b

\* l.Reader.Read(p) of a body with `remaining` bytes left, as io.Reader
\* allows it: at the end (0, EOF); else some of the bytes asked for, and
\* with the last of them EOF at once or at the next call.
ReaderRead(len, remaining) ==
    IF remaining = 0 THEN {[n |-> 0, err |-> "EOF"]}
    ELSE IF len = 0 THEN {[n |-> 0, err |-> "nil"]}
    ELSE {[n |-> n, err |-> "nil"] : n \in 1..Min(len, remaining)}
         \cup {[n |-> remaining, err |-> "EOF"] : n \in {remaining} \cap 1..len}

\* A handler that is given the whole buffer.
SliceWhole(len, BytesLeft) == len

\* if int64(len(p)) > l.BytesLeft { p = p[0:l.BytesLeft] }
Slice(len, BytesLeft) == IF len > BytesLeft THEN BytesLeft ELSE len

\* No request was served.
NoDefense ==
    /\ request = [ContentLength |-> -1, size |-> 0, read |-> 0]
    /\ limited = [BytesLeft |-> 0, Error |-> "nil"]
    /\ served = [code |-> 0, routed |-> FALSE, delivered |-> 0, reads |-> 0,
                 last |-> [n |-> 0, err |-> "nil"], first |-> "nil",
                 full |-> FALSE]

\* LimitReaderWithErr(r, n, err)
LimitReaderWithErr(n, err) == [BytesLeft |-> n, Error |-> err]

\* sizeLimiter.ServeHTTP(w, r) up to the call of the router.
ServeHTTP(ContentLength, size) ==
    /\ served.code = 0 /\ ~served.routed
    /\ request' = [ContentLength |-> ContentLength, size |-> size, read |-> 0]
    /\ IF ContentLength > maxRequestSize
       THEN /\ served' = [served EXCEPT !.code = StatusRequestEntityTooLarge]
            /\ limited' = limited
       ELSE /\ limited' = LimitReaderWithErr(maxRequestSize, ReqTooLargeError)
            /\ served' = [served EXCEPT !.routed = TRUE]
    /\ UNCHANGED <<supervisor, runner, accumulator, scopes, stacks, multi, nest,
                   connect>>

\* What a Read of the handler has returned.
Delivered(res) ==
    [served EXCEPT !.delivered = @ + res.n, !.reads = @ + 1, !.last = res,
                   !.first = IF @ = "nil" THEN res.err ELSE @,
                   !.full = (served.delivered = maxRequestSize)]

\* LimitedReaderWithErr.Read(p), called by the handler the router runs.
Read(len) ==
    /\ served.routed /\ served.reads < MaxReads
    /\ IF limited.BytesLeft <= 0
       THEN /\ served' = Delivered([n |-> 0, err |-> limited.Error])
            /\ UNCHANGED <<request, limited>>
       ELSE \E res \in ReaderRead(Slice(len, limited.BytesLeft),
                                  request.size - request.read) :
               /\ request' = [request EXCEPT !.read = @ + res.n]
               /\ limited' = [limited EXCEPT !.BytesLeft = @ - res.n]
               /\ served' = Delivered(res)
    /\ UNCHANGED <<supervisor, runner, accumulator, scopes, stacks, multi, nest,
                   connect>>

\* ===================================== the instrumented calls of a thread

\* The InstrumentWithMetrics calls of one run.
MaxSequence == 3
\* The calls in progress at one time, one within the other.
MaxNested == 2

\* No InstrumentWithMetrics call was made.
NoNest ==
    nest = [open |-> 0, calls |-> 0, unwinding |-> FALSE,
            nil |-> 0, err |-> 0, panicked |-> 0]

\* What the calls of a thread leave alone.
InstrumentFrame ==
    UNCHANGED <<supervisor, scope, inner, locals, span, sink, at, panicValue,
                fnResult, iwm, outcome, accumulator, scopes, stacks, multi,
                defense, connect>>

\* InstrumentWithMetrics is called, by the thread or by the body of the call
\* in progress: lines 74-80.
Instrument ==
    /\ at = "idle" /\ ~nest.unwinding
    /\ nest.calls < MaxSequence /\ nest.open < MaxNested
    /\ Metrics' = Preset(Metrics)
    /\ nest' = [nest EXCEPT !.open = @ + 1, !.calls = @ + 1]
    /\ InstrumentFrame

\* The body of the innermost call returns err: lines 82-96 and the deferred
\* bench.Done().
InstrumentReturn(err, elapsed) ==
    /\ at = "idle" /\ ~nest.unwinding /\ nest.open > 0
    /\ Metrics' = AddDuration(Classify(Metrics, err), "Time", elapsed)
    /\ nest' = IF err = "nil"
               THEN [nest EXCEPT !.open = @ - 1, !.nil = @ + 1]
               ELSE [nest EXCEPT !.open = @ - 1, !.err = @ + 1]
    /\ InstrumentFrame

\* The body of the innermost call panics, or the panic of the call it made
\* comes out of it: only the deferred bench.Done() runs, and the panic
\* unwinds into the caller.
InstrumentPanic(elapsed) ==
    /\ at = "idle" /\ nest.open > 0
    /\ Metrics' = AddDuration(Metrics, "Time", elapsed)
    /\ nest' = [nest EXCEPT !.open = @ - 1, !.panicked = @ + 1,
                            !.unwinding = TRUE]
    /\ InstrumentFrame

\* The caller (the thread, or the body of the enclosing call) recovers the
\* panic.
InstrumentRecover ==
    /\ at = "idle" /\ nest.unwinding
    /\ nest' = [nest EXCEPT !.unwinding = FALSE]
    /\ UNCHANGED Metrics
    /\ InstrumentFrame

\* ==================================================== the RDS connector

MaxRdsRetriesSec == 5
\* The seconds of the clock (time.Now().Unix()) a run covers.
MaxSeconds == 7
\* The connection attempts of one Connect.
MaxAttempts == 3

\* No Connect was called on the connector, which has no delegate yet.
NoConnector ==
    connect = [pos |-> "idle", start |-> 0, now |-> 0, attempts |-> 0,
               delegate |-> FALSE, err |-> "nil", timer |-> "none",
               cancelled |-> FALSE, result |-> "none", via |-> "none"]

\* What the connector leaves alone.
ConnectFrame ==
    UNCHANGED <<supervisor, runner, accumulator, scopes, stacks, multi,
                defense, nest>>

\* Connect(ctx) of an RDS connector up to the loop: start := time.Now().Unix()
Connect ==
    /\ connect.pos \in {"idle", "returned"}
    /\ connect' = [connect EXCEPT !.pos = "try", !.start = connect.now,
                                  !.attempts = 0, !.err = "nil",
                                  !.timer = "none", !.result = "none"]
    /\ ConnectFrame

\* What pc.tryConnection(ctx) answers and leaves in pc.delegate: the
\* delegate connects; or it fails and is dropped, and the password, the new
\* connector or its Connect fails; or the new connector connects and
\* becomes the delegate.
tryConnection(delegate) ==
    {[conn |-> TRUE, err |-> "nil", delegate |-> TRUE] : d \in {delegate} \cap {TRUE}}
    \cup {[conn |-> FALSE, err |-> e, delegate |-> FALSE] :
             e \in {"no string secret", "missing host", "connection refused"}}
    \cup {[conn |-> TRUE, err |-> "nil", delegate |-> TRUE]}

\* conn, err := pc.tryConnection(ctx); if err == nil { return conn, err }
TryConnection ==
    /\ connect.pos = "try" /\ connect.attempts < MaxAttempts
    /\ \E res \in tryConnection(connect.delegate) :
          connect' = [connect EXCEPT
              !.attempts = @ + 1, !.delegate = res.delegate, !.err = res.err,
              !.pos = IF res.err = "nil" THEN "returned" ELSE "window",
              !.result = IF res.err = "nil" THEN "conn" ELSE @]
    /\ ConnectFrame

\* if time.Now().Unix()-start > MaxRdsRetriesSec { return nil, err }, and
\* else timer := time.NewTimer(200 * time.Millisecond)
Window ==
    /\ connect.pos = "window"
    /\ connect' = IF connect.now - connect.start > MaxRdsRetriesSec
                  THEN [connect EXCEPT !.pos = "returned", !.result = connect.err]
                  ELSE [connect EXCEPT !.pos = "select", !.timer = "armed"]
    /\ ConnectFrame

\* A select that waits for one of its channels.
SelectBlocks(ready) == ready

\* select { case <-ctx.Done(): case <-timer.C: default: }: one of the ready
\* cases, and the default case when none is ready.
Select(ready) == IF ready = {} THEN {"default"} ELSE ready

\* The select of Connect: ctx.Done() returns ctx.Err(), timer.C and default
\* go on with the loop.
SelectStep ==
    /\ connect.pos = "select"
    /\ \E case \in Select({"ctx.Done" : c \in {connect.cancelled} \cap {TRUE}}
                          \cup {"timer.C" : f \in {connect.timer} \cap {"fired"}}) :
          connect' = IF case = "ctx.Done"
                     THEN [connect EXCEPT !.pos = "returned",
                                          !.result = "context canceled"]
                     ELSE [connect EXCEPT !.pos = "try", !.via = case]
    /\ ConnectFrame

\* A second passes.
Second ==
    /\ connect.pos # "idle" /\ connect.now < MaxSeconds
    /\ connect' = [connect EXCEPT !.now = @ + 1]
    /\ ConnectFrame

\* 200 ms have passed since the timer was made.
TimerFires ==
    /\ connect.timer = "armed"
    /\ connect' = [connect EXCEPT !.timer = "fired"]
    /\ ConnectFrame

\* The context of the call is cancelled.
CancelConnect ==
    /\ connect.pos \notin {"idle", "returned"} /\ ~connect.cancelled
    /\ connect' = [connect EXCEPT !.cancelled = TRUE]
    /\ ConnectFrame

\* Nothing is done with the wrappers.
NoWrappers == NoMulti /\ NoDefense /\ NoNest /\ NoConnector

\* Nothing is done with the helpers.
NoHelpers == NoMetrics /\ NoScopes /\ NoStacks /\ NoWrappers

\* ------------------------------------------------------ the specification

Init == NewProcessRegistry /\ NoCall /\ NoHelpers

\* Every goroutine there can be.
TaskRecords ==
    { Task(pc, periodic, pos, panicking) :
        pc \in 1..MaxContexts, periodic \in BOOLEAN,
        pos \in {"body", "select", "markDone", "locked", "close"},
        panicking \in {"none", "proc", "negative WaitGroup counter"} }

\* The thread that drives the registry (the test functions' goroutine).
MainCaller == 1

\* The steps of caller c in Run, TryRun and RunPeriodicProcess, once called.
PrepareRunStep(c) ==
    \/ PrepareRunLock(c)
    \/ PrepareRunCheck(c)
    \/ PrepareRunInsert(c)

\* One thread calls every operation of the registry.
CallerStep ==
    \E c \in {MainCaller} :
        \/ \E op \in RunOps, pc \in Contexts : Call(c, op, pc)
        \/ PrepareRunStep(c)
        \/ \E name \in Names : ObserveLock(c, "HasProcess", name)
        \/ ObserveLock(c, "LogRunning", "")
        \/ ObserveRead(c)
        \/ \E name \in Names : GetWaitChannelLock(c, name)
        \/ GetWaitChannel(c)
        \/ CloseLogRunningLock(c)
        \/ CloseLogRunning(c)
        \/ CloseCancel(c)
        \/ CloseWait(c)

\* The goroutines run at their own pace.
TaskStep ==
    \E t \in TaskRecords :
        \/ \E err \in BOOLEAN : BodyReturn(t, err)
        \/ BodyPanic(t)
        \/ SelectTick(t)
        \/ SelectDone(t)
        \/ MarkDoneLock(t)
        \/ markDone(t)
        \/ CloseDone(t)

Next ==
    \/ \E name \in Names : CreateProcessContext(name)
    \/ CallerStep
    \/ TaskStep

\* One thread drives the registry while the goroutines it started run.
Spec == Init /\ [][Next]_vars

\* Several threads call Run and TryRun at the same time.
ConcurrentCallerStep ==
    \E c \in Callers :
        \/ \E op \in {"TryRun", "Run"}, pc \in Contexts : Call(c, op, pc)
        \/ PrepareRunStep(c)

\* The goroutines of one-shot processes.
OneShotTaskStep ==
    \E t \in TaskRecords :
        \/ \E err \in BOOLEAN : BodyReturn(t, err)
        \/ BodyPanic(t)
        \/ MarkDoneLock(t)
        \/ markDone(t)
        \/ CloseDone(t)

ConcurrentNext ==
    \/ \E name \in Names : CreateProcessContext(name)
    \/ ConcurrentCallerStep
    \/ OneShotTaskStep

\* Concurrent registrations: every caller thread calls Run and TryRun.
ConcurrentSpec == Init /\ [][ConcurrentNext]_vars

\* The callers and goroutines of a run in which every body returns: no
\* body panics, and the registry is not only observed.
LiveCallerStep ==
    \E c \in {MainCaller} :
        \/ \E op \in RunOps, pc \in Contexts : Call(c, op, pc)
        \/ PrepareRunStep(c)
        \/ CloseLogRunningLock(c)
        \/ CloseLogRunning(c)
        \/ CloseCancel(c)
        \/ CloseWait(c)

LiveTaskStep ==
    \E t \in TaskRecords :
        \/ \E err \in BOOLEAN : BodyReturn(t, err)
        \/ SelectTick(t)
        \/ SelectDone(t)
        \/ MarkDoneLock(t)
        \/ markDone(t)
        \/ CloseDone(t)

LiveNext ==
    \/ \E name \in Names : CreateProcessContext(name)
    \/ LiveCallerStep
    \/ LiveTaskStep

\* What the Go scheduler and the hypothesis on the bodies give:
\*  - a thread that is inside a critical section, or inside Close past its
\*    log line, keeps running (weak fairness);
\*  - a body returns once the root context is cancelled (weak fairness of
\*    the return in a cancelled registry);
\*  - a goroutine blocked in Lock gets the mutex (sync.Mutex hands the lock
\*    over to a starving waiter), and a select with a ready cancellation
\*    case takes it sooner or later (select chooses among ready cases at
\*    random): strong fairness.
Fairness ==
    /\ \A c \in Callers :
        /\ WF_vars(PrepareRunCheck(c))
        /\ WF_vars(PrepareRunInsert(c))
        /\ WF_vars(CloseLogRunning(c))
        /\ WF_vars(CloseCancel(c))
        /\ WF_vars(CloseWait(c))
    /\ WF_vars(cancelled /\ \E t \in TaskRecords, err \in BOOLEAN : BodyReturn(t, err))
    /\ SF_vars(\E t \in TaskRecords : SelectDone(t))
    /\ SF_vars(\E t \in TaskRecords : MarkDoneLock(t))
    /\ WF_vars(\E t \in TaskRecords : markDone(t))
    /\ WF_vars(\E t \in TaskRecords : CloseDone(t))

\* A run in which every process body returns once the root context is
\* cancelled, under a fair scheduler.
LiveSpec == Init /\ [][LiveNext]_vars /\ Fairness

\* A thread calls RunInstrumented with some ctx.
RunnerInit ==
    /\ NewProcessRegistry
    /\ \E ctx \in Scopes : Entered(ctx)
    /\ at = "entry"
    /\ NoHelpers

\* fn, as far as RunInstrumented and InstrumentWithMetrics see it.
FnStep ==
    \/ FnAddCount
    \/ \E ctx \in Scopes : FnDerivesScope(ctx)
    \/ \E err \in Errors : FnReturn(err)
    \/ \E v \in PanicArgs : FnPanic(v)
    \/ InstrumentWithMetricsEnter
    \/ \E err \in Errors, elapsed \in 0..MaxElapsed :
          InstrumentWithMetricsReturn(err, elapsed)
    \/ \E v \in PanicArgs, elapsed \in 0..MaxElapsed :
          InstrumentWithMetricsPanic(v, elapsed)

RunnerNext ==
    \/ ReadScope
    \/ StartSpan("test1")
    \/ MakeMetricContext
    \/ FnStep
    \/ CopyToSpan
    \/ CopyToStatsd
    \/ Recover

\* One call of RunInstrumented, from entry to its return or panic.
RunnerSpec == RunnerInit /\ [][RunnerNext]_vars

\* The calls of one thread on a MetricsContext.
MetricsNext ==
    \/ \E op \in Methods : MetLock(op)
    \/ ResetCall
    \/ \E name \in Keys : GetMetricCall(name)
    \/ \E name \in Keys, val \in Vals, unit \in UnitsUsed :
          AddMetricCall(name, val, unit)
    \/ \E name \in Keys, val \in Vals, unit \in UnitsUsed :
          SetMetricCall(name, val, unit)
    \/ \E name \in Keys, val \in Vals : AddCountCall(name, val)
    \/ \E name \in Keys, val \in Vals : SetCountCall(name, val)
    \/ \E name \in Keys, val \in Vals : AddDurationCall(name, val)
    \/ \E name \in Keys, val \in Vals : SetDurationCall(name, val)
    \/ CopyToSpanCall
    \/ \E ct \in {ClientTypeNormal, ClientTypeCanary} : CopyToStatsdCall(ct)

MetricsSpec == Init /\ [][MetricsNext]_vars

\* An entry of any unit is copied to a span and to a statsd client.
NormalizeInit ==
    /\ NewProcessRegistry /\ NoCall /\ NoScopes /\ NoStacks /\ NoWrappers
    /\ \E name \in Keys, val \in NormVals, unit \in Units :
          Loaded(name, val, unit)

NormalizeNext ==
    \/ \E op \in {"CopyToSpan", "CopyToStatsd"} : MetLock(op)
    \/ CopyToSpanCall
    \/ \E ct \in {ClientTypeNormal, ClientTypeCanary} : CopyToStatsdCall(ct)

NormalizeSpec == NormalizeInit /\ [][NormalizeNext]_vars

\* The loggers a test imbues a context with.
Loggers == {"zap"}

\* A thread derives scopes, logs and counts through them, and calls
\* RunInstrumented with functions that do the same.
ScopeNext ==
    \/ \E ctx \in Scoped, logger \in Loggers : ImbueContext(ctx, logger)
    \/ \E ctx \in Scoped, name \in OpNames : MakeMetricContextOn(ctx, name)
    \/ \E ctx \in Scoped, op \in {"CL", "CLS"} : Log(op, ctx)
    \/ \E ctx \in Scoped : RecordCount(ctx)
    \/ \E ctx \in Scoped, name \in OpNames : RunInstrumentedEnter(ctx, name)
    \/ RunInstrumentedReturn

ScopeSpec == Init /\ [][ScopeNext]_vars

\* A stack is captured, with skipToFirstPanic or without.
StackInit ==
    /\ NewProcessRegistry /\ NoCall /\ NoMetrics /\ NoScopes /\ NoWrappers
    /\ \E skipToFirstPanic \in BOOLEAN, stack \in Stacks :
          NewShortenedStackTrace(skipToFirstPanic, stack)

StackNext == StringStackCall \/ JSONStackCall

\* One ShortenedStackTrace, rendered as a string and as stack elements.
StackSpec == StackInit /\ [][StackNext]_vars

\* A thread makes a multi-value context over any parent, reads values through
\* it and asks it for the deadline, the done channel and the error.
MultiNext ==
    \/ \E parent \in Parents, dataList \in DataLists :
          NewMultiValueContext(parent, dataList)
    \/ \E key \in Items : ValueCall(key)
    \/ CancelParent
    \/ \E op \in Delegates : DelegateCall(op)
    \/ DelegateBody

MultiSpec == Init /\ [][MultiNext]_vars

\* A request with any declared length and any body is served, and the
\* handler reads the body into buffers of any length.
DefenseNext ==
    \/ \E ContentLength \in ContentLengths, size \in BodySizes :
          ServeHTTP(ContentLength, size)
    \/ \E len \in 0..MaxBuf : Read(len)

DefenseSpec == Init /\ [][DefenseNext]_vars

\* A thread calls InstrumentWithMetrics with bodies that return, panic,
\* call it again and recover the panics of the calls they made.
InstrumentNext ==
    \/ Instrument
    \/ \E err \in Errors, elapsed \in 0..MaxElapsed :
          InstrumentReturn(err, elapsed)
    \/ \E elapsed \in 0..MaxElapsed : InstrumentPanic(elapsed)
    \/ InstrumentRecover

InstrumentSpec == Init /\ [][InstrumentNext]_vars

\* A thread calls Connect on an RDS connector while time passes and the
\* context of the call is cancelled or not.
ConnectNext ==
    \/ Connect
    \/ TryConnection
    \/ Window
    \/ SelectStep
    \/ Second
    \/ TimerFires
    \/ CancelConnect

ConnectSpec == Init /\ [][ConnectNext]_vars

\* ================================================================ claims

\* The step of caller c in this transition, if it takes one.
Stepped(c) == callers'[c] # callers[c]

\* C1: concurrent Run/TryRun calls on one name: the lookup and the insertion
\* are one critical section.  At most one caller stands between lookup and
\* insertion, a registration (insertion, goroutine, return true) happens
\* only in a state where the name is absent from the registry, and it puts
\* the caller's own context under the name.
C1_AtomicCheckAndInsert ==
    /\ [](\A c, d \in Callers :
            /\ callers[c].pos \in {"check", "insert"}
            /\ callers[d].pos \in {"check", "insert"}
            => c = d)
    /\ [][\A c \in Callers :
            callers[c].pos = "insert" /\ Stepped(c)
            => /\ processes[callers[c].name] = NoProc
               /\ processes'[callers[c].name] = callers[c].pc
               /\ callers'[c].res = "true"
               /\ tasks' = Spawned(Task(callers[c].pc, FALSE, "body", "none"))
          ]_vars

\* Two calls on one name are in flight: one has found the name absent and
\* is about to insert it, the other waits for the lock.
C1_Witness ==
    \E c, d \in Callers :
        /\ callers[c].pos = "insert"
        /\ callers[d].pos = "lock"
        /\ callers[c].name = callers[d].name
        /\ callers[c].pc # callers[d].pc

\* C2: TryRun on a context whose name is registered returns false and has
\* no side effect: the map, numRunning, the wait-group counter, the
\* goroutines and the Done channels are as before.
C2_TryRunRejectedNoSideEffect ==
    [][\A c \in Callers :
        /\ callers[c].op = "TryRun"
        /\ callers[c].pos = "check"
        /\ processes[callers[c].name] # NoProc
        /\ Stepped(c)
        => /\ callers'[c].pos = "done"
           /\ callers'[c].res = "false"
           /\ UNCHANGED <<processes, numRunning, runningGroups, tasks, done>>
      ]_vars

\* A TryRun has returned false while the name is registered and the Done
\* channel of its context is open.
C2_Witness ==
    \E c \in Callers :
        /\ callers[c].op = "TryRun"
        /\ callers[c].pos = "done"
        /\ callers[c].res = "false"
        /\ processes[callers[c].name] # NoProc
        /\ done[callers[c].pc] = "open"

\* C3: Run on a context whose name is registered panics and starts no
\* goroutine; Run on a name that is not registered does not panic: it
\* registers the name, starts the goroutine and returns.
C3_RunPanicsOnDuplicate ==
    [][\A c \in Callers :
        /\ callers[c].op = "Run"
        /\ Stepped(c)
        => /\ callers[c].pos = "check" /\ processes[callers[c].name] # NoProc
              => /\ callers'[c].pos = "done"
                 /\ callers'[c].res = "panic"
                 /\ UNCHANGED <<processes, numRunning, runningGroups, tasks>>
           /\ callers[c].pos = "check" /\ processes[callers[c].name] = NoProc
              => callers'[c].pos = "insert"
           /\ callers[c].pos = "insert"
              => /\ callers'[c].pos = "done"
                 /\ callers'[c].res = "true"
                 /\ processes'[callers[c].name] = callers[c].pc
                 /\ tasks' = Spawned(Task(callers[c].pc, FALSE, "body", "none"))
      ]_vars

\* A Run has panicked on a name whose first process is still running.
C3_Witness ==
    \E c \in Callers :
        /\ callers[c].op = "Run"
        /\ callers[c].pos = "done"
        /\ callers[c].res = "panic"
        /\ \E t \in Tasks : Name(t.pc) = callers[c].name /\ t.pos = "body"

\* C4: a Run that directly follows a Run of the same caller on the same
\* context, which returned normally, panics.
C4_SecondRunPanics ==
    \A c \in Callers :
        /\ callers[c].op = "Run"
        /\ callers[c].again
        /\ callers[c].pos = "done"
        => callers[c].res = "panic"

\* C5: no goroutine closes a Done channel that is closed already (the
\* second close is the runtime panic "close of closed channel").
C5_DoneClosedOnce == fatal # "close of closed channel"

\* C6: when Close has returned, the Done channel of every process that was
\* registered when Close was called (the processes of its log line) is
\* closed.
C6_CloseWaitsForDone ==
    \A c \in Callers :
        /\ callers[c].op = "Close"
        /\ callers[c].pos = "done"
        => \A pc \in callers[c].snap : done[pc] = "closed"

\* C7: while the goroutine of a one-shot process is alive, an observer that
\* finds the name of the process absent from the registry (HasProcess
\* false, the name not in LogRunning) finds its Done channel closed.
C7_DeregisteredIsDone ==
    \A t \in Tasks :
        ~t.periodic /\ ~HasProcess(Name(t.pc)) => done[t.pc] = "closed"

\* C8: when every process body returns once the root context is cancelled,
\* a Close that has cancelled the root context and waits returns.
C8_CloseReturns ==
    \A c \in Callers :
        (callers[c].op = "Close" /\ callers[c].pos = "wait")
            ~> (callers[c].op = "Close" /\ callers[c].pos = "done")

\* The waiting Close of C8 in the runs that no goroutine panic ends: it
\* returns, unless the program is aborted first.
CloseReturnsUnlessAborted ==
    \A c \in Callers :
        (callers[c].op = "Close" /\ callers[c].pos = "wait")
            ~> (fatal # "none" \/ (callers[c].op = "Close" /\ callers[c].pos = "done"))

\* C9: once Close has returned, and with no registration concurrent with or
\* after it (the one caller is still where Close returned), the registry is
\* empty: LogRunning is "", HasProcess is false for every name, and
\* numRunning is 0.
C9_EmptyAfterClose ==
    \A c \in Callers :
        /\ callers[c].op = "Close"
        /\ callers[c].pos = "done"
        => /\ LogRunning = ""
           /\ \A name \in Names : ~HasProcess(name)
           /\ numRunning = 0

\* A process registered under the name has completed (its Done channel is
\* closed), it belongs to another context than pc, and no goroutine of a
\* process of that name is still before its markDone.
CompletedBefore(name, pc) ==
    /\ \E p \in Contexts : p # pc /\ Name(p) = name /\ done[p] = "closed"
    /\ \A t \in Tasks : Name(t.pc) = name => t.pos = "close"

\* C10: after a process registered under a name has completed, TryRun and
\* Run on a newly created context of that name are accepted: the lookup
\* finds the name absent, and the call registers it and returns true.
C10_NameReusable ==
    [][\A c \in Callers :
        /\ callers[c].op \in {"TryRun", "Run"}
        /\ Stepped(c)
        /\ CompletedBefore(callers[c].name, callers[c].pc)
        => /\ callers[c].pos = "check" => callers'[c].pos = "insert"
           /\ callers[c].pos = "insert"
              => /\ callers'[c].pos = "done"
                 /\ callers'[c].res = "true"
                 /\ processes'[callers[c].name] = callers[c].pc
      ]_vars

\* A TryRun on a new context has been accepted under the name of a process
\* that has completed.
C10_Witness ==
    \E c \in Callers :
        /\ callers[c].op = "TryRun"
        /\ callers[c].pos = "done"
        /\ callers[c].res = "true"
        /\ processes[callers[c].name] = callers[c].pc
        /\ \E p \in Contexts :
              /\ p # callers[c].pc
              /\ Name(p) = callers[c].name
              /\ done[p] = "closed"

\* Goroutine t takes a step in this transition: the bag holds one t less.
Leaves(t) == CopiesIn(t, tasks') < CopiesIn(t, tasks)

\* C11: a one-shot process (Run/TryRun) ends through its deferred calls
\* whichever way its body ends (nil, error, panic): the goroutine goes from
\* the body to markDone, markDone removes the name of the process from the
\* registry, and the goroutine ends with its Done channel closed.  No step
\* of the goroutine changes what a caller got from Run or TryRun: the
\* body's error reaches no caller.
C11_OneShotCompletes ==
    [][\A t \in Tasks :
        ~t.periodic /\ Leaves(t)
        => /\ callers' = callers
           /\ t.pos = "body"
              => /\ \E u \in TaskRecords :
                       /\ u.pc = t.pc /\ u.pos = "markDone"
                       /\ tasks' = Moved(t, u)
                 /\ fatal' = "none"
           /\ t.pos = "markDone"
              => tasks' = Moved(t, [t EXCEPT !.pos = "locked"])
           /\ t.pos = "locked"
              => /\ processes'[Name(t.pc)] = NoProc
                 /\ \E u \in TaskRecords :
                       /\ u.pc = t.pc /\ u.pos = "close"
                       /\ tasks' = Moved(t, u)
           /\ t.pos = "close"
              => /\ done'[t.pc] = "closed"
                 /\ tasks' = Ended(t)
      ]_vars

\* The body of a one-shot process has panicked, and the deferred markDone
\* has removed its name; the goroutine is about to close Done.
C11_Witness ==
    \E t \in Tasks :
        /\ ~t.periodic
        /\ t.pos = "close"
        /\ t.panicking = "proc"
        /\ ~Has(Name(t.pc))
        /\ done[t.pc] = "open"

\* C12: RunPeriodicProcess on a context whose name is registered raises
\* and has no side effect: no goroutine is started, and the map, numRunning
\* and the wait-group counter are as before.
C12_PeriodicRejectedNoSideEffect ==
    [][\A c \in Callers :
        /\ callers[c].op = "RunPeriodicProcess"
        /\ callers[c].pos = "check"
        /\ Has(callers[c].name)
        /\ Stepped(c)
        => /\ callers'[c].pos = "done"
           /\ callers'[c].res = "panic"
           /\ UNCHANGED <<processes, numRunning, runningGroups, tasks>>
      ]_vars

\* C13: while the root context is not cancelled, a periodic process whose
\* iterations return (with or without an error) is in its loop, is
\* registered under its name, and its Done channel is open.
C13_PeriodicRunsUntilCancelled ==
    \A t \in Tasks :
        t.periodic /\ t.panicking = "none" /\ ~cancelled
        => /\ t.pos \in {"body", "select"}
           /\ processes[Name(t.pc)] = t.pc
           /\ done[t.pc] = "open"

\* Close has cancelled the root context and waits while the periodic
\* process of context pc runs.
PeriodicAtClose(pc, c) ==
    /\ callers[c].op = "Close" /\ callers[c].pos = "wait"
    /\ \E t \in Tasks : t.periodic /\ t.pc = pc

\* The process of context pc is deregistered and its Done channel closed.
Finished(pc) ==
    /\ pc \in Contexts
    /\ done[pc] = "closed"
    /\ processes[Name(pc)] # pc

\* C14: when every body returns once the root context is cancelled, a
\* periodic process that runs when Close has cancelled the root context
\* and waits is deregistered and its Done channel closed (Wait returns),
\* and Close returns.
C14_PeriodicStopsAfterCancel ==
    \A pc \in 1..MaxContexts, c \in Callers :
        /\ PeriodicAtClose(pc, c) ~> Finished(pc)
        /\ PeriodicAtClose(pc, c)
              ~> (callers[c].op = "Close" /\ callers[c].pos = "done")

\* The periodic process of C14 in the runs that no goroutine panic ends: it
\* is deregistered, its Done channel is closed and Close returns, unless
\* the program is aborted first.
PeriodicStopsUnlessAborted ==
    \A pc \in 1..MaxContexts, c \in Callers :
        /\ PeriodicAtClose(pc, c) ~> (fatal # "none" \/ Finished(pc))
        /\ PeriodicAtClose(pc, c)
              ~> \/ fatal # "none"
                 \/ callers[c].op = "Close" /\ callers[c].pos = "done"

\* C15: GetWaitChannel(name) for a name that is not in the registry
\* returns a new channel that is closed already, and no step of the call
\* changes the registry, the Done channels or the goroutines.
C15_AbsentNameClosedChannel ==
    [][\A c \in Callers :
        callers'[c].op = "GetWaitChannel" /\ Stepped(c)
        => /\ UNCHANGED <<processes, numRunning, runningGroups, done, tasks>>
           /\ callers[c].pos = "lookup" /\ ~Has(callers[c].name)
              => /\ callers'[c].pos = "done"
                 /\ callers'[c].pc = NoProc
                 /\ callers'[c].res = "closed"
      ]_vars

\* GetWaitChannel has returned the new closed channel for the name of a
\* process that has finished and is deregistered.
C15_Witness ==
    \E c \in Callers :
        /\ callers[c].op = "GetWaitChannel"
        /\ callers[c].pos = "done"
        /\ callers[c].pc = NoProc
        /\ WaitChannelClosed(c)
        /\ \E p \in Contexts :
              Name(p) = callers[c].name /\ done[p] = "closed"

\* C16: GetWaitChannel(name) for a registered name returns the Done channel
\* of the process registered under the name, and that channel is open
\* while the body of the process is running (in its loop, for a periodic
\* process).
C16_RegisteredNameOwnDone ==
    [][\A c \in Callers :
        /\ callers[c].op = "GetWaitChannel"
        /\ callers[c].pos = "lookup"
        /\ Has(callers[c].name)
        /\ Stepped(c)
        => /\ callers'[c].pc = processes[callers[c].name]
           /\ (\E t \in Tasks : /\ t.pc = processes[callers[c].name]
                                 /\ t.pos \in {"body", "select"})
              => done[processes[callers[c].name]] = "open"
      ]_vars

\* The counts Success, Error and Fault of the map m.
Counts(m) == <<m["Success"].Val, m["Error"].Val, m["Fault"].Val>>

\* C17: after the one InstrumentWithMetrics call on a fresh accumulator,
\* exactly one of Success, Error, Fault is 1 and the others are 0: Success
\* when the body returned nil, Error when it returned an error (which is
\* returned unchanged), Fault when it panicked; the Fault case is what the
\* enclosing RunInstrumented flushed to the sink and the span once the
\* panic has left it.
C17_OutcomeCounts ==
    iwm.calls = 1 /\ iwm.fresh
    => /\ iwm.state = "returned" /\ iwm.body = "nil"
          => Counts(Metrics) = <<1, 0, 0>>
       /\ iwm.state = "returned" /\ iwm.body # "nil"
          => Counts(Metrics) = <<0, 1, 0>> /\ iwm.res = iwm.body
       /\ iwm.state = "panicked"
          => /\ Counts(Metrics) = <<0, 0, 1>>
             /\ at = "done"
                => /\ Counts(sink[Len(sink)].values) = <<0, 0, 1>>
                   /\ Counts(span.metrics[Len(span.metrics)]) = <<0, 0, 1>>

\* The body of the one InstrumentWithMetrics call has panicked, the panic
\* has left RunInstrumented, and the sink holds Fault = 1.
C17_Witness ==
    /\ at = "done"
    /\ outcome.kind = "panic"
    /\ iwm.calls = 1 /\ iwm.fresh
    /\ iwm.state = "panicked"
    /\ sink[1].values["Fault"].Val = 1

\* C18: when fn has panicked, RunInstrumented does not return: it ends
\* raising the panic value again, with the span tagged (error.stack, panic)
\* and finished with the error "gopanic: <value>".
C18_PanicReraised ==
    at = "done" /\ fnResult = "panicked"
    => /\ outcome.kind = "panic"
       /\ outcome.value = panicValue
       /\ <<"panic", outcome.value>> \in span.tags
       /\ \E t \in span.tags : t[1] = "error.stack"
       /\ span.finished = 1
       /\ span.error = "gopanic: " \o outcome.value

\* C19: when fn returned, RunInstrumented returns fn's error value; and
\* the span of the call is finished exactly once on every path, never
\* twice, with fn's error (none for nil) when fn returned.
C19_ReturnsErrFinishesOnce ==
    /\ span.started <= 1
    /\ span.finished <= 1
    /\ at = "done"
       => /\ span.started = 1
          /\ span.finished = 1
          /\ fnResult # "panicked"
             => /\ outcome = [kind |-> "return", value |-> fnResult]
                /\ span.error = fnResult

\* fn returned an error: RunInstrumented has returned it, and the span is
\* finished with it.
C19_Witness ==
    /\ at = "done"
    /\ fnResult = "test err"
    /\ outcome = [kind |-> "return", value |-> "test err"]
    /\ span.finished = 1
    /\ span.error = "test err"

\* C20: a RunInstrumented call flushes the accumulator once to the span
\* and once to the sink, never twice, whether fn returned or panicked: what
\* is flushed is what fn accumulated, the flush to the span comes before
\* the span is finished, and the flush to the sink goes to the statsd
\* client, with the client type, of the ctx the call was entered with.
C20_FlushedOnce ==
    /\ Len(sink) <= 1
    /\ Len(span.metrics) <= 1
    /\ span.finished > 0 => Len(span.metrics) = 1
    /\ at = "done"
       => /\ Len(sink) = 1
          /\ Len(span.metrics) = 1
          /\ span.metrics[1] = Flushed(Metrics)
          /\ sink[1] = [client |-> GetStatsdFromContext(scope),
                        clientType |-> GetClientTypeFromContext(scope),
                        values |-> Flushed(Metrics)]

\* fn added a count, derived a ctx with another client type and panicked;
\* the one flush to the sink holds the count.
C20_Witness ==
    /\ at = "done"
    /\ fnResult = "panicked"
    /\ GetClientTypeFromContext(inner) # GetClientTypeFromContext(scope)
    /\ Len(sink) = 1
    /\ sink[1].values["hellocount"].Val = 1

\* The calls that go through AddMetric.
Adders == {"AddMetric", "AddCount", "AddDuration"}

\* C21: a call of AddMetric on a name whose entry has another unit panics,
\* leaves the value and the unit of the entry as they were, and releases
\* the lock of the accumulator, so that later calls can take it.
C21_MismatchPanics ==
    /\ [][\A op \in Adders, name \in Keys, unit \in UnitsUsed :
            ( /\ metCall.pos = "locked" /\ metCall.op = op
              /\ met.Metrics[name] # NoEntry
              /\ met.Metrics[name].Unit # unit
              /\ \E val \in Vals : AddMetricBody(op, name, val, unit) )
            => /\ metCall'.pos = "panicked"
               /\ met'.Metrics = met.Metrics
               /\ ~met'.Lock]_vars
    /\ [](metCall.pos = "panicked" /\ metCall.n < MaxCalls
            => \A op \in Methods : ENABLED MetLock(op))

\* An AddMetric with the wrong unit panicked and calls are still to come.
C21_Witness ==
    /\ metCall.pos = "panicked"
    /\ metCall.n < MaxCalls
    /\ \E name \in Keys : met.Metrics[name] # NoEntry

\* C22: AddMetric accumulates: the first AddMetric of a name makes the entry
\* with the value and the unit given, and after any calls the value of the
\* entry is the value last set plus the values added since; AddCount and
\* AddDuration are AddMetric with the unit count and seconds.
C22_AddsAccumulate ==
    /\ [](\A name \in Keys :
            met.Metrics[name] =
                IF ledger[name].unit = "absent" THEN NoEntry
                ELSE [Val |-> ledger[name].set + ledger[name].added,
                      Unit |-> ledger[name].unit])
    /\ [][/\ ( metCall.pos = "locked" /\ metCall.op = "AddCount"
               /\ metCall'.pos # "locked" )
             => \E name \in Keys, val \in Vals :
                   met'.Metrics = AddMetric(met.Metrics, name, val, "Count")
          /\ ( metCall.pos = "locked" /\ metCall.op = "AddDuration"
               /\ metCall'.pos # "locked" )
             => \E name \in Keys, val \in Vals :
                   met'.Metrics = AddMetric(met.Metrics, name, val, "Seconds")
       ]_vars

\* A value was set and two values were added to it.
C22_Witness ==
    \E name \in Keys :
        /\ ledger[name].set > 0
        /\ ledger[name].added > MaxVal
        /\ met.Metrics[name].Val = ledger[name].set + ledger[name].added

\* The calls that go through SetMetric.
Setters == {"SetMetric", "SetCount", "SetDuration"}

\* C23: SetMetric replaces the value and the unit of the entry whatever the
\* entry held, without a check of the unit, and a later AddMetric of the name
\* is checked against the unit of the most recent SetMetric.
C23_SetReplaces ==
    [][/\ \A op \in Setters, name \in Keys, val \in Vals, unit \in UnitsUsed :
            ( /\ metCall.pos = "locked" /\ metCall.op = op
              /\ SetMetricBody(op, name, val, unit) )
            => /\ metCall'.pos = "returned"
               /\ met'.Metrics[name] = [Val |-> val, Unit |-> unit]
               /\ \A other \in Keys \ {name} :
                     met'.Metrics[other] = met.Metrics[other]
       /\ \A op \in Adders, name \in Keys, unit \in UnitsUsed :
            ( /\ metCall.pos = "locked" /\ metCall.op = op
              /\ ledger[name].set > 0
              /\ \E val \in Vals : AddMetricBody(op, name, val, unit) )
            => (metCall'.pos = "panicked" <=> unit # ledger[name].unit)
      ]_vars

\* An entry of one unit was set to another unit, and a value of the new
\* unit was added to it.
C23_Witness ==
    \E name \in Keys :
        /\ ledger[name].was \notin {"absent", ledger[name].unit}
        /\ ledger[name].added > 0
        /\ metCall.pos = "returned"
        /\ met.Metrics[name].Unit = ledger[name].unit

\* The multiples of a unit, one step of 1024 apart.
Prefixes == <<"Kilo", "Mega", "Giga", "Tera">>

\* The unit of the family of base ("bytes", "bits") that is step steps
\* above the smallest, per second or not.
UnitOf(step, base, perSecond) ==
    (IF step > 0 THEN Prefixes[step] \o base
     ELSE IF base = "bytes" THEN "Bytes" ELSE "Bits")
    \o (IF perSecond THEN "/Second" ELSE "")

\* The entry in the smallest unit of its family.
InSmallestUnit(e) ==
    IF e.Unit = "Seconds"
    THEN [Val |-> e.Val * 10^6, Exp2 |-> 0, Unit |-> "Microseconds"]
    ELSE IF e.Unit = "Milliseconds"
    THEN [Val |-> e.Val * 10^3, Exp2 |-> 0, Unit |-> "Microseconds"]
    ELSE IF \E step \in 0..4, base \in {"bytes", "bits"}, rate \in BOOLEAN :
               e.Unit = UnitOf(step, base, rate)
    THEN LET f == CHOOSE f \in (0..4) \X {"bytes", "bits"} \X BOOLEAN :
                      e.Unit = UnitOf(f[1], f[2], f[3])
         IN  [Val |-> e.Val, Exp2 |-> 10 * f[1],
              Unit |-> UnitOf(0, f[2], f[3])]
    ELSE [Val |-> e.Val, Exp2 |-> 0, Unit |-> e.Unit]

\* The number a normalized value stands for.
Number(n) == n.Val * 2^n.Exp2

\* C24: Normalize converts an entry to the smallest unit of its family:
\* seconds and milliseconds to microseconds (by 10^6 and 10^3), the byte
\* and bit multiples and their rates to bytes, bits, bytes/second and
\* bits/second (by 1024 a step), and leaves count, percent, count/second
\* and none as they are; 125 gigabits/second are 125*1024^3 bits/second,
\* 2 kilobytes are 2048 bytes, 500 milliseconds are 500000 microseconds.
C24_NormalizeSmallestUnit ==
    /\ \A name \in Present(met.Metrics) :
          /\ Normalize(met.Metrics[name]) = InSmallestUnit(met.Metrics[name])
          /\ \A i \in 1..Len(recordingSink) :
                recordingSink[i].name = met.OpName \o "." \o name
                => /\ recordingSink[i].value.Val =
                         InSmallestUnit(met.Metrics[name]).Val
                   /\ recordingSink[i].value.Exp2 =
                         InSmallestUnit(met.Metrics[name]).Exp2
          /\ \A i \in 1..Len(fakeSpan) :
                fakeSpan[i].key = name
                => /\ fakeSpan[i].num.Val =
                         InSmallestUnit(met.Metrics[name]).Val
                   /\ fakeSpan[i].num.Exp2 =
                         InSmallestUnit(met.Metrics[name]).Exp2
    /\ Normalize([Val |-> 125, Unit |-> "Gigabits/Second"])
          = [Val |-> 125, Exp2 |-> 30, Unit |-> "Bits/Second"]
    /\ Number(Normalize([Val |-> 2, Unit |-> "Kilobytes"])) = 2048
    /\ Normalize([Val |-> 2, Unit |-> "Kilobytes"]).Unit = "Bytes"
    /\ Normalize([Val |-> 500, Unit |-> "Milliseconds"])
          = [Val |-> 500000, Exp2 |-> 0, Unit |-> "Microseconds"]

\* 125 gigabits/second were sent to the statsd client as 125 * 2^30.
C24_Witness ==
    /\ \E name \in Keys :
          met.Metrics[name] = [Val |-> 125, Unit |-> "Gigabits/Second"]
    /\ Len(recordingSink) = 1
    /\ recordingSink[1].value.Val = 125
    /\ recordingSink[1].value.Exp2 = 30
    /\ recordingSink[1].tags[1] = "unit:bits_per_second"

\* The SetTag calls in calls that are made under key.
TagsUnder(calls, key) == {i \in 1..Len(calls) : calls[i].key = key}

\* C25: CopyToSpan sets, for every metric, the tag <name> to the normalized
\* value, and the tag <name>_unit exactly when the normalized unit is not
\* count; it sets no other tag and leaves the accumulator as it was.
C25_CopyToSpanTags ==
    [][( /\ metCall.pos = "locked" /\ metCall.op = "CopyToSpan"
         /\ metCall'.pos # "locked" )
       => /\ metCall'.pos = "returned"
          /\ met'.Metrics = met.Metrics
          /\ \A name \in Keys :
                LET n == Normalize(met.Metrics[name])
                    values == TagsUnder(fakeSpan', name)
                    units == TagsUnder(fakeSpan', name \o "_unit")
                IN  IF met.Metrics[name] = NoEntry
                    THEN values = {} /\ units = {}
                    ELSE /\ Cardinality(values) = 1
                         /\ \A i \in values :
                               /\ fakeSpan'[i].num.Val = n.Val
                               /\ fakeSpan'[i].num.Exp2 = n.Exp2
                         /\ (units # {} <=> n.Unit # "Count")
                         /\ Cardinality(units) <= 1
          /\ \A i \in 1..Len(fakeSpan') :
                \E name \in Present(met.Metrics) :
                   fakeSpan'[i].key \in {name, name \o "_unit"}
      ]_vars

\* A count and a rate were copied to the span: the count without a unit
\* tag, the rate with one.
C25_Witness ==
    /\ metCall.op = "CopyToSpan" /\ metCall.pos = "returned"
    /\ \E a, b \in Keys :
          /\ met.Metrics[a] # NoEntry /\ met.Metrics[a].Unit = "Count"
          /\ met.Metrics[b] # NoEntry
          /\ met.Metrics[b].Unit = "Gigabits/Second"
          /\ TagsUnder(fakeSpan, a) # {}
          /\ TagsUnder(fakeSpan, a \o "_unit") = {}
          /\ \E i \in TagsUnder(fakeSpan, b \o "_unit") :
                fakeSpan[i].str = "bits_per_second"

\* The Distribution calls in calls that are made under the name.
SamplesOf(calls, name) == {i \in 1..Len(calls) : calls[i].name = name}

\* C26: CopyToStatsd emits every metric as exactly one distribution sample
\* named <OpName>.<metric>, with the normalized value and the tags
\* unit:<normalized unit name> and client-type:<clientType> in that order;
\* the errors of the client are ignored and the accumulator is left as it
\* was.
C26_CopyToStatsdSamples ==
    [][\A ct \in {ClientTypeNormal, ClientTypeCanary} :
         ( /\ metCall.pos = "locked" /\ metCall.op = "CopyToStatsd"
           /\ CopyToStatsdCall(ct) )
         => /\ metCall'.pos = "returned"
            /\ met'.Metrics = met.Metrics
            /\ Len(recordingSink') = Cardinality(Present(met.Metrics))
            /\ \A name \in Present(met.Metrics) :
                  LET n == Normalize(met.Metrics[name])
                      sent == SamplesOf(recordingSink',
                                        met.OpName \o "." \o name)
                  IN  /\ Cardinality(sent) = 1
                      /\ \A i \in sent :
                            /\ recordingSink'[i].value.Val = n.Val
                            /\ recordingSink'[i].value.Exp2 = n.Exp2
                            /\ recordingSink'[i].tags =
                                 <<"unit:" \o normalizeUnitName(n.Unit),
                                   "client-type:" \o ct>>
      ]_vars

\* Two metrics were sent, the client answered one of the calls with an
\* error, and CopyToStatsd returned.
C26_Witness ==
    /\ metCall.op = "CopyToStatsd" /\ metCall.pos = "returned"
    /\ Len(recordingSink) = 2
    /\ \E i \in 1..2 : recordingSink[i].err # "nil"
    /\ \E i \in 1..2 :
          /\ recordingSink[i].name = "TestOp.speed"
          /\ recordingSink[i].tags = <<"unit:bits_per_second",
                                       "client-type:canary">>

\* The bindings of a context after the step.
BindingsAfter(ctx) == IF ctx = 0 THEN Background ELSE ctxValues'[ctx]

\* C27: RunInstrumented hands fn a derived scope with a new, empty
\* accumulator bound to the name of the call; what is recorded through the
\* derived scope, or through scopes derived from it by a nested
\* RunInstrumented or MakeMetricContext, never changes the accumulator of
\* the caller's scope; GetMetricsFromContext returns the innermost
\* accumulator; and the logger and the accumulator of the caller's scope
\* are the same after the call as before it.
C27_DerivedScopeIsolated ==
    [][/\ Len(runs') = Len(runs) + 1
          => LET r == runs'[Len(runs')]
                 m == ctxValues'[r.derived].metrics
             IN  /\ r.derived = Len(ctxValues) + 1
                 /\ m > Len(accumulators)
                 /\ \A ctx \in Scoped : Bindings(ctx).metrics # m
                 /\ accumulators'[m] = [OpName |-> r.name, Count |-> 0]
                 /\ \A i \in 1..Len(accumulators) :
                       accumulators'[i] = accumulators[i]
       /\ scopeCall'.op = "MakeMetricContext"
          => LET m == ctxValues'[Len(ctxValues')].metrics
             IN  /\ m > Len(accumulators)
                 /\ accumulators'[m].Count = 0
                 /\ \A i \in 1..Len(accumulators) :
                       accumulators'[i] = accumulators[i]
       /\ \A ctx \in Scoped :
             ( /\ scopeCall'.op = "AddCount"
               /\ accumulators' # accumulators
               /\ RecordCount(ctx) )
             => \A i \in 1..Len(runs) :
                   ( /\ DerivedFrom(ctx, runs[i].derived)
                     /\ runs[i].before.metrics # 0 )
                   => accumulators'[runs[i].before.metrics]
                         = accumulators[runs[i].before.metrics]
       /\ \A i \in 1..Len(runs) :
             /\ BindingsAfter(runs[i].ctx).logger = runs[i].before.logger
             /\ BindingsAfter(runs[i].ctx).metrics = runs[i].before.metrics
      ]_vars

\* Inside a RunInstrumented nested in another, fn recorded a count, and the
\* caller's scope of the outer call has an accumulator of its own.
C27_Witness ==
    /\ Len(runs) = 2
    /\ runs[1].before.metrics # 0
    /\ runs[2].ctx = runs[1].derived
    /\ accumulators[Bindings(runs[2].derived).metrics].Count = 1
    /\ accumulators[runs[1].before.metrics].Count = 0
    /\ accumulators[runs[2].before.metrics].Count = 0

\* C28: CL and CLS on a scope that was never primed with ImbueContext panic,
\* and RunInstrumented on such a scope fails the same way before it starts
\* a span.
C28_UnprimedScopePanics ==
    [][\A ctx \in Scoped :
          Bindings(ctx).logger = NoLogger
          => /\ \A op \in {"CL", "CLS"} :
                   Log(op, ctx)
                   => scopeCall'.raised
                         = "Trying to log from an un-imbued context"
             /\ \A name \in OpNames :
                   RunInstrumentedEnter(ctx, name)
                   => /\ scopeCall'.raised
                            = "Trying to log from an un-imbued context"
                      /\ spans' = spans
                      /\ Len(runs') <= Len(runs)
                      /\ ctxValues' = ctxValues
      ]_vars

\* RunInstrumented was called on a scope with an accumulator and no logger:
\* it panicked and no span was ever started.
C28_Witness ==
    /\ scopeCall = Outcome("RunInstrumented",
                           "Trying to log from an un-imbued context")
    /\ spans = 0
    /\ \E ctx \in Scoped :
          Bindings(ctx).metrics # 0 /\ Bindings(ctx).logger = NoLogger

\* The places of the gopanic frames in the captured stack.
Trampolines == {i \in 1..Len(trace.stack) : trace.stack[i] = Gopanic}

\* The line a frame is rendered as.
LineOf(frame) ==
    Fl(parseFrame(frame)) \o " " \o Join(parseFrame(frame).label, ".")

\* What a rendering holds, as lines.
Lines(call) ==
    IF call = "StringStack" THEN rendered.string
    ELSE [i \in 1..Len(rendered.json) |->
             rendered.json[i].Fl \o " " \o rendered.json[i].Fn]

\* C29: with skipToFirstPanic, StringStack and JSONStack suppress every
\* frame up to and including the last gopanic frame of the captured stack,
\* however many there are: the first frame rendered is the site of the
\* first panic and no gopanic frame is rendered; a stack without a gopanic
\* frame is rendered from its first frame.
C29_SkipsToFirstPanic ==
    \A call \in rendered.calls :
        trace.skipToFirstPanic
        => LET first == IF Trampolines = {} THEN 1
                        ELSE 1 + CHOOSE i \in Trampolines :
                                    \A j \in Trampolines : j <= i
           IN  /\ Len(Lines(call)) = Len(trace.stack) - first
               /\ \A i \in 1..Len(Lines(call)) :
                     /\ Lines(call)[i] = LineOf(trace.stack[first + i - 1])
                     /\ Lines(call)[i] # LineOf(Gopanic)
               /\ Lines(call)[1] = LineOf(trace.stack[first])
               /\ Trampolines # {} => trace.stack[first] \in Sites

\* A stack with three panics on the way was rendered by StringStack: the
\* first line is the site of the first panic.
C29_Witness ==
    /\ trace.skipToFirstPanic
    /\ Cardinality(Trampolines) = 3
    /\ rendered.calls = {"StringStack", "JSONStack"}
    /\ rendered.string[1] = "pkg/sub/file.go:98 TestPanicSearch"
    /\ rendered.json[1] = [Fl |-> "pkg/sub/file.go:98",
                           Fn |-> "TestPanicSearch"]

\* C30, as stated: a frame with the file /home/user/src/pkg/sub/file.go and
\* the label pkg/sub.Type.Method is rendered as
\* pkg/sub/file.go:<line> Method.
C30_RendersMethodOnly ==
    \A call \in rendered.calls :
        ~trace.skipToFirstPanic
        => \A i \in 1..Len(Lines(call)) :
              trace.stack[i] = Method
              => Lines(call)[i] = "pkg/sub/file.go:"
                                  \o ToString(Method.Line) \o " Method"

\* C30, amended: rendering strips the build root from the file and the
\* package path and the package name from the label, and keeps the rest of
\* the label: a frame with the file /home/user/src/pkg/sub/file.go and the
\* label pkg/sub.Type.Method is rendered as
\* pkg/sub/file.go:<line> Type.Method.
C30_StripsRootAndPackage ==
    \A call \in rendered.calls :
        ~trace.skipToFirstPanic
        => \A i \in 1..Len(Lines(call)) :
              LET frame == trace.stack[i]
              IN  /\ frame = Method
                     => Lines(call)[i] = "pkg/sub/file.go:"
                                         \o ToString(Method.Line)
                                         \o " Type.Method"
                  /\ \A root \in {BuildRoot, GoRoot} :
                        ( /\ Len(frame.File) > Len(root)
                          /\ SubSeq(frame.File, 1, Len(root)) = root )
                        => Lines(call)[i] =
                              Join(SubSeq(frame.File, Len(root) + 1,
                                          Len(frame.File)), "/")
                              \o ":" \o ToString(frame.Line) \o " "
                              \o Join(Tail(frame.Function.parts), ".")

\* The method frame on top of a stack was rendered by StringStack and by
\* JSONStack.
C30_Witness ==
    /\ ~trace.skipToFirstPanic
    /\ trace.stack[1] = Method
    /\ rendered.calls = {"StringStack", "JSONStack"}
    /\ rendered.string[1] = "pkg/sub/file.go:42 Type.Method"
    /\ rendered.json[1] = [Fl |-> "pkg/sub/file.go:42", Fn |-> "Type.Method"]

\* The value the list gives for a key: the value of its last pair with the
\* key.
Listed(dataList, key) ==
    LET pairs == {i \in 1..(Len(dataList) \div 2) : dataList[2 * i - 1] = key}
        last == CHOOSE i \in pairs : \A j \in pairs : j <= i
    IN  dataList[2 * last]

\* The keys of a list.
ListKeys(dataList) ==
    {dataList[2 * i - 1] : i \in 1..(Len(dataList) \div 2)}

\* C31: NewMultiValueContext(parent, k1, v1, ...) returns a context
\* populated with the data: Value(ki) returns vi for every key of the list,
\* Value(k) for any other key returns parent.Value(k), and a list of odd
\* length raises.
C31_ValueReturnsData ==
    /\ mvcCall.op = "NewMultiValueContext" =>
          (mvcCall.pos = "panicked") = (Len(mvcCall.dataList) % 2 # 0)
    /\ mvcCall.op = "Value" =>
          mvcCall.result =
              IF mvcCall.key \in ListKeys(mvc.dataList)
              THEN Listed(mvc.dataList, mvcCall.key)
              ELSE mvc.Context.value[mvcCall.key]

\* C32: a request body larger than maxRequestSize is never delivered in
\* full to the handler: with a Content-Length above the limit the answer is
\* 413 and the router is not invoked, and otherwise the reads of the handler
\* deliver at most maxRequestSize bytes in total, after which every further
\* Read returns (0, ReqTooLargeError).
C32_OversizedNeverDelivered ==
    /\ (served.code = StatusRequestEntityTooLarge)
           = (request.ContentLength > maxRequestSize)
    /\ request.ContentLength > maxRequestSize =>
           ~served.routed /\ served.reads = 0
    /\ served.delivered <= maxRequestSize
    /\ request.size > maxRequestSize => served.delivered < request.size
    /\ served.full => served.last = [n |-> 0, err |-> ReqTooLargeError]

C32_Witness ==
    /\ request.size > maxRequestSize
    /\ request.ContentLength <= maxRequestSize
    /\ served.routed /\ served.full
    /\ served.delivered = maxRequestSize
    /\ served.last.err = ReqTooLargeError

\* C33: in every reachable state with the registry lock free, numRunning,
\* the counter of the wait group and the number of entries of the processes
\* map are equal, and none of them goes below zero (numRunning does not
\* wrap around, the wait-group counter is never negative), for any sequence
\* of Run, TryRun, RunPeriodicProcess and task completions.
C33_CountersAgree ==
    /\ runningGroups >= 0
    /\ MtxFree =>
          /\ numRunning = runningGroups
          /\ runningGroups = Cardinality({name \in Names : Has(name)})

\* C34: once the root context is cancelled a periodic process runs no
\* further iteration after the one in progress: a process that is at the
\* wait between two iterations with the cancellation signalled does not
\* start its body again, also when the period timer has fired as well.
C34_NoIterationAfterCancel ==
    [][\A t \in Tasks :
          cancelled /\ t.periodic /\ t.pos = "select" => ~SelectTick(t)]_vars

\* The goroutines of the periodic process of context pc that are running
\* its body.
InBody(pc) ==
    {t \in Tasks : t.periodic /\ t.pc = pc /\ t.pos = "body"}

\* C35: the iterations of one periodic process are strictly sequential: its
\* body is never running in two instances at the same time.
C35_IterationsSequential ==
    \A pc \in Contexts :
        /\ Cardinality(InBody(pc)) <= 1
        /\ \A t \in InBody(pc) : CopiesIn(t, tasks) = 1

\* C36: the counts accumulate across the InstrumentWithMetrics calls on one
\* accumulator: when the k calls made so far, one after the other or one
\* within the other, have all ended, Success + Error + Fault = k, with
\* Success the number of bodies that returned nil, Error the number that
\* returned an error and Fault the number that panicked; while calls are in
\* progress Fault counts each of them as well.
C36_CountsAccumulate ==
    /\ Counts(Metrics) = <<nest.nil, nest.err, nest.panicked + nest.open>>
    /\ nest.open = 0 =>
          Metrics["Success"].Val + Metrics["Error"].Val + Metrics["Fault"].Val
              = nest.calls

\* Three calls have ended, one of each kind, and the panic was recovered.
C36_Witness ==
    /\ nest.calls = 3 /\ nest.open = 0 /\ ~nest.unwinding
    /\ Counts(Metrics) = <<1, 1, 1>>

\* C37: in RunInstrumented the metrics are copied to the span before the
\* span is finished, on the normal, the error and the panic path alike: no
\* flush sets a tag on a finished span, the span is finished only after
\* both flushes, and the flush to the sink precedes the return and the
\* re-raise of a panic.
C37_FlushedBeforeFinish ==
    [][/\ span'.metrics # span.metrics =>
             span.finished = 0 /\ span'.finished = 0
       /\ sink' # sink =>
             /\ span.finished = 0 /\ span'.finished = 0
             /\ outcome.kind = "none" /\ outcome'.kind = "none"
       /\ span'.finished # span.finished =>
             Len(span.metrics) = 1 /\ Len(sink) = 1
       /\ outcome'.kind # outcome.kind =>
             Len(span.metrics) = 1 /\ Len(sink) = 1]_vars

\* A panic has left RunInstrumented with the metrics copied to the span
\* and to the sink and the span finished.
C37_Witness ==
    /\ at = "done"
    /\ outcome.kind = "panic"
    /\ Len(span.metrics) = 1 /\ Len(sink) = 1
    /\ span.finished = 1

\* C38: reading a body of at most n bytes to its end through
\* LimitReaderWithErr(r, n, err) yields the EOF of the underlying reader and
\* never err: the first error the reads of such a body return is not the
\* limit error, also for a body of exactly n bytes.
C38_WithinLimitReadsToEOF ==
    request.size <= maxRequestSize => served.first # ReqTooLargeError

\* What the parent context answers to Deadline(), Done() and Err().
OfParent(op) ==
    CASE op = "Deadline" -> mvc.Context.deadline
      [] op = "Done" -> DoneOf(mvc.Context)
      [] op = "Err" -> mvc.Context.err

\* C39: Deadline(), Done() and Err() of a MultiValueContext terminate and
\* return the deadline, the done channel and the error of the parent
\* context: no such call ends the program, and a call that has returned
\* has returned what the parent answers.
C39_DelegatesToParent ==
    mvcCall.op \in Delegates =>
        /\ mvcCall.pos # "stack overflow"
        /\ mvcCall.pos = "returned" => mvcCall.result = OfParent(mvcCall.op)

\* C40: in Connect of an RDS connector, after a failed attempt the call is
\* suspended until the 200 ms timer fires or the context is cancelled
\* before the next attempt starts (no busy retry); it returns ctx.Err()
\* when the context is cancelled first, and gives up with the last
\* connection error once the window MaxRdsRetriesSec has elapsed.
C40_RetrySuspended ==
    [][/\ connect.pos = "select" /\ connect'.pos = "try" =>
             connect.timer = "fired"
       /\ connect.pos = "select" /\ connect'.pos # "select"
             /\ connect.cancelled /\ connect.timer # "fired" =>
             connect'.pos = "returned" /\ connect'.result = "context canceled"
       /\ connect.pos = "select" /\ connect'.pos = "returned" =>
             connect.cancelled
       /\ connect.pos = "window" /\ connect'.pos = "returned" =>
             /\ connect.now - connect.start > MaxRdsRetriesSec
             /\ connect'.result = connect.err
       /\ connect.pos = "window" /\ connect'.pos = "select" =>
             connect.now - connect.start <= MaxRdsRetriesSec]_vars

\* ---------------------------------------------------------- type invariant

TypeOK ==
    /\ mtx \in BOOLEAN
    /\ numRunning \in 0..(Modulus - 1)
    /\ cancelled \in BOOLEAN
    /\ processes \in [Names -> 0..MaxContexts]
    /\ runningGroups \in Int
    /\ Len(contexts) <= MaxContexts
    /\ Len(done) = Len(contexts)
    /\ Tasks \subseteq TaskRecords
    /\ BagCardinality(tasks) <= MaxTasks

====
